---- MODULE Spec2Model ----
(***************************************************************************)
(* A model of Origami Store (src/origami.py): the FlatpakStore controller, *)
(* its operation workers (install, uninstall, update, update-all), the     *)
(* GLib idle queue that carries their callbacks to the UI thread, the disk *)
(* image cache (download_image), the catalog loader (load_flathub_apps)    *)
(* and the catalog normaliser (_parse_v2_response).                        *)
(*                                                                         *)
(* Each subsystem has its own specification over its own variables:        *)
(*   Spec         the operation runner and the UI thread's idle queue      *)
(*   SpecImg      download_image, calls made one after the other           *)
(*   SpecImgConc  download_image, calls running on concurrent workers      *)
(*   SpecParse    _parse_v2_response on bounded API responses              *)
(*   SpecCat      load_flathub_apps: the API attempt and the fallback      *)
(*   SpecGuess    _guess_category_from_id on bounded ids                   *)
(*   SpecSearch   on_search_changed and its debounce timer                 *)
(*   SpecFilter   filter_apps on bounded catalogs, categories and terms    *)
(*   SpecThreads  which thread executes which statement of each routine    *)
(*   SpecMedia    store cards, their image widgets and load_worker threads *)
(*   SpecShots    get_app_screenshot_urls on bounded detail responses      *)
(*   SpecList     load_installed_apps on bounded `flatpak list` outputs    *)
(*   SpecExc      exceptions raised in worker threads and their handlers    *)
(*   SpecReload   load_installed_apps runs on concurrent threads            *)
(*   SpecSpinner  load_flathub_apps, show_loading and the loading spinner    *)
(* The variables of the other subsystems stay at their initial values.     *)
(***************************************************************************)
EXTENDS Integers, Sequences, FiniteSets, TLC

(***************************************************************************)
(* Bounds of the model.                                                    *)
(***************************************************************************)
\* number of operations (worker threads) started in one run
MaxOps == 2
\* number of non-blank output lines an install subprocess prints
MaxLines == 1

\* number of download_image calls in one run
MaxCalls == 2
\* number of 8192-byte chunks of an image body
NChunks == 2

\* number of records in an API response built from sample records
MaxRecs == 2

\* number of catalog loads (load_flathub_apps threads) in one run
MaxLoads == 2

\* number of chunks an id handed to _guess_category_from_id is made of
MaxChunks == 2

\* number of search-changed events in one run
MaxEvents == 3

\* number of records in the catalog handed to filter_apps
MaxCatalog == 2

\* number of clicks and of threads started in one run of the thread view
MaxClicks == 1
MaxThreads == 2

\* number of display_apps passes in one run
MaxPasses == 2

\* number of entries in the screenshots list of a detail response
MaxShots == 2

\* number of lines in the output of `flatpak list`
MaxListLines == 2

\* number of exceptions raised in worker threads in one run
MaxRaises == 2

\* number of load_installed_apps runs and of optimistic changes in one run
MaxReloads == 2
MaxChanges == 1

\* package ids the user can act on
Ids == {"a"}
\* the id slot of an update-all worker, which has no id
NoId == "-"
Workers == 1..MaxOps
\* tag of a callback that no operation worker posted
NoOp == 0

VARIABLES
  installed_apps,      \* self.installed_apps: set of ids
  current_operations,  \* self.current_operations: id -> label
  page,                \* self.notebook.get_current_page(): 0 store, 1 installed
  store_cards,         \* apps_container: id -> what the card of id offers
  installed_cards,     \* installed_container: ids that have a card
  uiq,                 \* GLib idle queue: callbacks posted, not yet run
  wk,                  \* the operation worker threads
  sys_installed,       \* what the package manager has installed (environment)
  posted,              \* status sink: per worker, the kinds of the messages
                       \* it handed to GLib.idle_add(self.show_status, ...)
  reloaded             \* workers one of whose callbacks ran load_installed_apps

VARIABLES
  cache_file,          \* the cache file of the URL under self.cache_dir
  dl                   \* the download_image calls

imgVars == <<cache_file, dl>>

VARIABLES
  p_data,              \* _parse_v2_response: the decoded JSON it is given
  p_out                \* _parse_v2_response: what the call produced

parseVars == <<p_data, p_out>>

VARIABLES
  available_apps,      \* self.available_apps: the catalog
  ld                   \* the load_flathub_apps threads

catVars == <<available_apps, ld>>

VARIABLES
  g_id,                \* _guess_category_from_id: the characters of app_id
  g_out                \* _guess_category_from_id: what the call returned

guessVars == <<g_id, g_out>>

VARIABLES
  search_timeout,      \* self.search_timeout: the stored source id
  sources,             \* GLib timeout sources armed by on_search_changed
  events,              \* the search-changed events handled so far
  display_calls        \* the display_apps calls made by the timers

searchVars == <<search_timeout, sources, events, display_calls>>

VARIABLES
  f_apps,              \* filter_apps: self.available_apps
  f_category,          \* filter_apps: self.current_category
  f_term,              \* filter_apps: search_term
  f_out                \* filter_apps: what the call returned

filterVars == <<f_apps, f_category, f_term, f_out>>

VARIABLES
  t_ui,                \* the statements the UI thread has left in its handler
  t_wk,                \* the statements each worker thread has left
  t_clicks,            \* clicks handled so far
  tq,                  \* GLib idle queue: names of the callbacks posted
  tlog                 \* <<thread, effect>> for every effect executed so far

thrVars == <<t_ui, t_wk, t_clicks, tq, tlog>>

VARIABLES
  mw,                  \* the image widgets created so far and their load_worker
  mq,                  \* GLib idle queue: the set_from_pixbuf callbacks posted
  m_passes,            \* display_apps passes made so far
  m_log                \* what each callback that ran found and left

mediaVars == <<mw, mq, m_passes, m_log>>

VARIABLES
  s_id,                \* get_app_screenshot_urls: app_id
  s_resp,              \* get_app_screenshot_urls: how the detail request ends
  s_out                \* get_app_screenshot_urls: what the call returned

shotVars == <<s_id, s_resp, s_out>>

VARIABLES
  l_stdout,            \* load_installed_apps: result.stdout, lines of fields
  l_out                \* load_installed_apps: the set and the cards it left

listVars == <<l_stdout, l_out>>

VARIABLES
  x_log                \* the exceptions raised so far and what became of them

excVars == <<x_log>>

VARIABLES
  r_installed,         \* self.installed_apps, as the reloading threads see it
  r_runs,              \* the load_installed_apps runs
  r_changes            \* optimistic add / discard calls made so far

reloadVars == <<r_installed, r_runs, r_changes>>

VARIABLES
  k_loads,             \* the load_flathub_apps threads, as the spinner sees them
  k_queue,             \* GLib idle queue: the show_loading calls posted
  k_spinner            \* is self.loading_spinner shown?

spinVars == <<k_loads, k_queue, k_spinner>>

opsVars == <<installed_apps, current_operations, page, store_cards,
             installed_cards, uiq, wk, sys_installed, posted, reloaded>>

vars == <<opsVars, imgVars, parseVars, catVars, guessVars, searchVars,
          filterVars, thrVars, mediaVars, shotVars, listVars, excVars,
          reloadVars, spinVars>>

\* what the actions of one subsystem leave alone
notOps == <<imgVars, parseVars, catVars, guessVars, searchVars, filterVars,
            thrVars, mediaVars, shotVars, listVars, excVars, reloadVars,
            spinVars>>
notImg == <<opsVars, parseVars, catVars, guessVars, searchVars, filterVars,
            thrVars, mediaVars, shotVars, listVars, excVars, reloadVars,
            spinVars>>
notParse == <<opsVars, imgVars, catVars, guessVars, searchVars, filterVars,
              thrVars, mediaVars, shotVars, listVars, excVars, reloadVars,
              spinVars>>
notCat == <<opsVars, imgVars, parseVars, guessVars, searchVars, filterVars,
            thrVars, mediaVars, shotVars, listVars, excVars, reloadVars,
            spinVars>>
notGuess == <<opsVars, imgVars, parseVars, catVars, searchVars, filterVars,
              thrVars, mediaVars, shotVars, listVars, excVars, reloadVars,
              spinVars>>
notSearch == <<opsVars, imgVars, parseVars, catVars, guessVars, filterVars,
               thrVars, mediaVars, shotVars, listVars, excVars, reloadVars,
               spinVars>>
notFilter == <<opsVars, imgVars, parseVars, catVars, guessVars, searchVars,
               thrVars, mediaVars, shotVars, listVars, excVars, reloadVars,
               spinVars>>
notThr == <<opsVars, imgVars, parseVars, catVars, guessVars, searchVars,
            filterVars, mediaVars, shotVars, listVars, excVars, reloadVars,
            spinVars>>
notMedia == <<opsVars, imgVars, parseVars, catVars, guessVars, searchVars,
              filterVars, thrVars, shotVars, listVars, excVars, reloadVars,
              spinVars>>
notShots == <<opsVars, imgVars, parseVars, catVars, guessVars, searchVars,
              filterVars, thrVars, mediaVars, listVars, excVars, reloadVars,
              spinVars>>
notList == <<opsVars, imgVars, parseVars, catVars, guessVars, searchVars,
             filterVars, thrVars, mediaVars, shotVars, excVars, reloadVars,
             spinVars>>
notExc == <<opsVars, imgVars, parseVars, catVars, guessVars, searchVars,
            filterVars, thrVars, mediaVars, shotVars, listVars, reloadVars,
            spinVars>>
notReload == <<opsVars, imgVars, parseVars, catVars, guessVars, searchVars,
               filterVars, thrVars, mediaVars, shotVars, listVars, excVars,
               spinVars>>
notSpin == <<opsVars, imgVars, parseVars, catVars, guessVars, searchVars,
             filterVars, thrVars, mediaVars, shotVars, listVars, excVars,
             reloadVars>>

(***************************************************************************)
(* Operation runner: helpers                                               *)
(***************************************************************************)
\* A callback handed to GLib.idle_add, tagged with the worker that posted it.
\* The queue carries the callbacks that read or write the state modelled here
\* (load_installed_apps, refresh_current_view, the installed-card rebuild);
\* show_status only replaces the status bar's text and is recorded in `posted`
\* when it is posted, and show_progress only shows or hides the progress bar.
Cb(fn, op, arg) == [fn |-> fn, op |-> op, arg |-> arg]

\* the last element of a non-empty sequence
Last(q) == q[Len(q)]

\* del self.current_operations[app_id], guarded by `if app_id in ...`
DelOperation(ops, id) ==
  [i \in (DOMAIN ops) \ {id} |-> ops[i]]

\* self.current_operations[app_id] = label
SetOperation(ops, id, label) ==
  [i \in (DOMAIN ops) \cup {id} |-> IF i = id THEN label ELSE ops[i]]

\* what add_app_card puts on the card of id
CardFor(id, ops, inst) ==
  IF id \in DOMAIN ops THEN "progress"
  ELSE IF id \in inst THEN "uninstall" ELSE "install"

\* display_apps: every card is destroyed and built again
DisplayApps(ops, inst) == [id \in Ids |-> CardFor(id, ops, inst)]

\* a worker thread: the operation it runs, where it is in its code, the
\* output lines it has read and how its subprocess call ended
\* ("raise": the call raised, "rc0": exit code 0, "rc1": non-zero exit code)
UnusedWorker ==
  [kind |-> "none", id |-> NoId, pc |-> "unused", lines |-> 0, out |-> "none"]

FreeWorker(w) ==
  /\ wk[w].pc = "unused"
  /\ \A v \in Workers : v < w => wk[v].pc # "unused"

InFlight(w) == wk[w].pc \in {"start", "launched", "finally"}

(***************************************************************************)
(* load_installed_apps, run by the thread that calls it.  `ok` is whether  *)
(* `flatpak list` exits with code 0.                                       *)
(***************************************************************************)
\* the outcomes of `flatpak list` to consider: both when the step runs
\* load_installed_apps, one when it does not run the command at all
ListOutcomes(runs) == IF runs THEN BOOLEAN ELSE {TRUE}

LoadInstalledSet(ok) == IF ok THEN sys_installed ELSE installed_apps

\* clear_installed_container and one add_installed_app_card per parsed line,
\* posted back to back: together they rebuild the installed cards
LoadInstalledPosts(ok) ==
  IF ok THEN <<Cb("render_installed", NoOp, sys_installed)>> ELSE << >>

(***************************************************************************)
(* refresh_current_view, run on the UI thread                              *)
(***************************************************************************)
RefreshCurrentView(ops, q, ok) ==
  IF page = 0
  THEN /\ store_cards' = DisplayApps(ops, installed_apps)
       /\ installed_apps' = installed_apps
       /\ uiq' = q
  ELSE /\ store_cards' = store_cards
       /\ installed_apps' = LoadInstalledSet(ok)
       /\ uiq' = q \o LoadInstalledPosts(ok)

(***************************************************************************)
(* UI thread: the user's clicks                                            *)
(***************************************************************************)
SwitchPage(p) ==
  /\ page # p
  /\ page' = p
  /\ UNCHANGED <<installed_apps, current_operations, store_cards,
                 installed_cards, uiq, wk,
                 sys_installed, posted, reloaded>>
  /\ UNCHANGED notOps

StartWorker(w, kind, id) ==
  wk' = [wk EXCEPT ![w] = [kind |-> kind, id |-> id, pc |-> "start",
                           lines |-> 0, out |-> "none"]]

\* the Install button exists on store cards only, so the refresh at the
\* click is display_apps and `flatpak list` is not run
install_app(w, id) ==
  /\ FreeWorker(w)
  /\ page = 0 /\ store_cards[id] = "install"
  /\ current_operations' = SetOperation(current_operations, id, "Installing")
  /\ RefreshCurrentView(current_operations', uiq, TRUE)
  /\ StartWorker(w, "install", id)
  /\ UNCHANGED <<page, installed_cards, sys_installed, posted, reloaded>>
  /\ UNCHANGED notOps

uninstall_app(w, id, ok) ==
  /\ FreeWorker(w)
  /\ \/ page = 0 /\ store_cards[id] = "uninstall"
     \/ page = 1 /\ id \in installed_cards
  /\ current_operations' = SetOperation(current_operations, id, "Uninstalling")
  /\ RefreshCurrentView(current_operations', uiq, ok)
  /\ StartWorker(w, "uninstall", id)
  /\ UNCHANGED <<page, installed_cards, sys_installed, posted, reloaded>>
  /\ UNCHANGED notOps

update_app(w, id) ==
  /\ FreeWorker(w)
  /\ page = 1 /\ id \in installed_cards
  /\ current_operations' = SetOperation(current_operations, id, "Updating")
  /\ StartWorker(w, "update", id)
  /\ UNCHANGED <<installed_apps, page, store_cards, installed_cards, uiq,
                 sys_installed, posted, reloaded>>
  /\ UNCHANGED notOps

update_all_apps(w) ==
  /\ FreeWorker(w)
  /\ page = 1
  /\ StartWorker(w, "updateAll", NoId)
  /\ UNCHANGED <<installed_apps, current_operations, page, store_cards,
                 installed_cards, uiq, sys_installed, posted, reloaded>>
  /\ UNCHANGED notOps

(***************************************************************************)
(* Worker threads.  A worker posts callbacks with GLib.idle_add (uiq) and  *)
(* touches installed_apps and current_operations itself.                   *)
(***************************************************************************)
\* (variant) only the first message of a worker reaches the status sink
PostStatus_FirstOnly(log, w, kinds) ==
  IF log[w] = << >> THEN [log EXCEPT ![w] = <<kinds[1]>>] ELSE log

\* GLib.idle_add(self.show_status, <message of this kind>) by worker w
PostStatus(log, w, kinds) == [log EXCEPT ![w] = @ \o kinds]

\* The worker posts its first status and launches the subprocess; `raises`
\* is whether Popen / subprocess.run raises (the except branch is taken).
WorkerStart(w, raises) ==
  /\ wk[w].pc = "start"
  /\ IF raises
     THEN /\ posted' = PostStatus(posted, w, <<"start", "error">>)
          /\ wk' = [wk EXCEPT ![w].pc = "finally", ![w].out = "raise"]
     ELSE /\ posted' = PostStatus(posted, w, <<"start">>)
          /\ wk' = [wk EXCEPT ![w].pc = "launched"]
  /\ UNCHANGED <<installed_apps, current_operations, page, store_cards,
                 installed_cards, uiq, sys_installed, reloaded>>
  /\ UNCHANGED notOps

\* install_worker reads one non-blank line of the subprocess's output
WorkerLine(w) ==
  /\ wk[w].pc = "launched" /\ wk[w].kind = "install"
  /\ wk[w].lines < MaxLines
  /\ posted' = PostStatus(posted, w, <<"line">>)
  /\ wk' = [wk EXCEPT ![w].lines = @ + 1]
  /\ UNCHANGED <<installed_apps, current_operations, page, store_cards,
                 installed_cards, uiq, sys_installed, reloaded>>
  /\ UNCHANGED notOps

\* what the package manager has installed once the subprocess has exited
SysAfter(kind, id, rc) ==
  IF rc # 0 THEN sys_installed
  ELSE IF kind = "install" THEN sys_installed \cup {id}
  ELSE IF kind = "uninstall" THEN sys_installed \ {id}
  ELSE sys_installed

\* (variant) the worker leaves self.installed_apps to the next reload
InstalledAfter_LeftToReload(kind, id, rc) == installed_apps

\* the optimistic change of self.installed_apps on exit code 0
InstalledAfter(kind, id, rc) ==
  IF rc # 0 THEN installed_apps
  ELSE IF kind = "install" THEN installed_apps \cup {id}
  ELSE IF kind = "uninstall" THEN installed_apps \ {id}
  ELSE installed_apps

\* GLib.idle_add(self.load_installed_apps) in the returncode branches
ExitPosts(w, rc) ==
  LET k == wk[w].kind
      load == Cb("load_installed_apps", w, TRUE)
  IN  IF k \in {"install", "uninstall"}
      THEN (IF rc = 0 THEN <<load>> ELSE << >>)
      ELSE IF k = "updateAll" THEN <<load>>
      ELSE << >>

\* The subprocess exits with code rc and the worker takes its if/else branch
WorkerExit(w, rc) ==
  /\ wk[w].pc = "launched"
  /\ sys_installed' = SysAfter(wk[w].kind, wk[w].id, rc)
  /\ installed_apps' = InstalledAfter(wk[w].kind, wk[w].id, rc)
  /\ uiq' = uiq \o ExitPosts(w, rc)
  /\ posted' = PostStatus(posted, w, <<IF rc = 0 THEN "success" ELSE "failure">>)
  /\ wk' = [wk EXCEPT ![w].pc = "finally",
                      ![w].out = IF rc = 0 THEN "rc0" ELSE "rc1"]
  /\ UNCHANGED <<current_operations, page, store_cards, installed_cards,
                 reloaded>>
  /\ UNCHANGED notOps

\* (mutant) the cleanup at the end of the try body instead of in a finally
\* block: an exception skips it
FinallyOperations_InTryBody(w) ==
  IF wk[w].kind = "updateAll" \/ wk[w].out = "raise" THEN current_operations
  ELSE DelOperation(current_operations, wk[w].id)

\* the entry the finally block leaves in current_operations
FinallyOperations(w) ==
  IF wk[w].kind = "updateAll" THEN current_operations
  ELSE DelOperation(current_operations, wk[w].id)

\* the callbacks the finally block posts
FinallyPosts(w) ==
  LET k == wk[w].kind
  IN  IF k \in {"install", "uninstall"}
      THEN <<Cb("refresh_current_view", w, TRUE)>>
      ELSE IF k = "update" THEN <<Cb("load_installed_apps", w, TRUE)>>
      ELSE << >>

\* the finally block of the worker, after which the thread ends
WorkerFinally(w) ==
  /\ wk[w].pc = "finally"
  /\ current_operations' = FinallyOperations(w)
  /\ uiq' = uiq \o FinallyPosts(w)
  /\ wk' = [wk EXCEPT ![w].pc = "done"]
  /\ UNCHANGED <<installed_apps, page, store_cards, installed_cards,
                 sys_installed, posted, reloaded>>
  /\ UNCHANGED notOps

(***************************************************************************)
(* UI thread: the main loop runs the callback at the head of the queue     *)
(***************************************************************************)
\* does running callback cb call load_installed_apps?
CallsLoad(cb) ==
  \/ cb.fn = "load_installed_apps"
  \/ cb.fn = "refresh_current_view" /\ page # 0

UIDispatch(ok) ==
  /\ uiq # <<>>
  /\ LET cb == Head(uiq)
         rest == Tail(uiq)
     IN  /\ installed_cards' =
              IF cb.fn = "render_installed" THEN cb.arg ELSE installed_cards
         /\ reloaded' =
              IF CallsLoad(cb) /\ cb.op # NoOp THEN reloaded \cup {cb.op}
              ELSE reloaded
         /\ IF cb.fn = "refresh_current_view"
            THEN RefreshCurrentView(current_operations, rest, ok)
            ELSE IF cb.fn = "load_installed_apps"
            THEN /\ installed_apps' = LoadInstalledSet(ok)
                 /\ uiq' = rest \o LoadInstalledPosts(ok)
                 /\ store_cards' = store_cards
            ELSE /\ uiq' = rest
                 /\ UNCHANGED <<installed_apps, store_cards>>
  /\ UNCHANGED <<current_operations, page, wk, sys_installed, posted>>
  /\ UNCHANGED notOps

(***************************************************************************)
(* Disk image cache: download_image(url, max_size).                        *)
(*                                                                         *)
(* The cache file of a URL is one path under cache_dir.  A file's content  *)
(* is the sequence of its chunks: chunk k of the image the URL serves is   *)
(* the number k, and 0 is anything else (a hole, bytes that do not belong  *)
(* to the image).  A call that has the file open writes through its        *)
(* descriptor: "live" while the path still names the file it opened,       *)
(* "orphan" once os.remove has unlinked that file.                         *)
(***************************************************************************)
Calls == 1..MaxCalls
Url == "u"
Urls == {"", Url}
\* the max_size values of the call sites (load_app_media_async)
Sizes == {<<400, 180>>, <<128, 128>>, <<64, 64>>}

GoodImage == [k \in 1..NChunks |-> k]
\* a body the server sends with status 200 that is no image
BadBody == [k \in 1..NChunks |-> 0]
Bodies == {GoodImage, BadBody}

Absent == [exists |-> FALSE, data |-> << >>]
File(data) == [exists |-> TRUE, data |-> data]

\* GdkPixbuf.Pixbuf.new_from_file_at_scale succeeds on these contents
Decodable(data) == data = GoodImage

NoResult == [kind |-> "pending", pix |-> << >>, size |-> << >>]
ReturnNone == [kind |-> "none", pix |-> << >>, size |-> << >>]
\* an exception that leaves download_image
Raised == [kind |-> "raised", pix |-> << >>, size |-> << >>]
Pixbuf(data, size) == [kind |-> "image", pix |-> data, size |-> size]

IdleCall ==
  [pc |-> "idle", url |-> "", size |-> << >>, fd |-> "none", off |-> 0,
   body |-> << >>, gets |-> 0, corrupt |-> FALSE, before |-> Absent,
   result |-> NoResult]

ImgIdle ==
  /\ cache_file = Absent
  /\ dl = [c \in Calls |-> IdleCall]

\* f.write(chunk) at chunk offset off of a file holding data
WriteAt(data, off, v) ==
  LET n == IF Len(data) > off THEN Len(data) ELSE off + 1
  IN  [i \in 1..n |-> IF i = off + 1 THEN v
                      ELSE IF i <= Len(data) THEN data[i] ELSE 0]

\* (mutant) the exists test looks at a path that is never written, so every
\* call with a url goes to the network
DlCall_NoCacheLookup(c, url, size) ==
  /\ dl[c].pc = "idle"
  /\ dl' = [dl EXCEPT ![c] =
       [IdleCall EXCEPT
          !.url = url, !.size = size, !.before = cache_file,
          !.pc = IF url = "" THEN "done" ELSE "get",
          !.result = IF url = "" THEN ReturnNone ELSE NoResult]]
  /\ UNCHANGED cache_file
  /\ UNCHANGED notImg

\* download_image is called: the url test and os.path.exists(cache_path)
DlCall(c, url, size) ==
  /\ dl[c].pc = "idle"
  /\ dl' = [dl EXCEPT ![c] =
       [IdleCall EXCEPT
          !.url = url, !.size = size, !.before = cache_file,
          !.pc = IF url = "" THEN "done"
                 ELSE IF cache_file.exists THEN "decode_cached" ELSE "get",
          !.result = IF url = "" THEN ReturnNone ELSE NoResult]]
  /\ UNCHANGED cache_file
  /\ UNCHANGED notImg

\* try: return Pixbuf.new_from_file_at_scale(cache_path, ...)
DlDecodeCached(c) ==
  /\ dl[c].pc = "decode_cached"
  /\ IF cache_file.exists /\ Decodable(cache_file.data)
     THEN dl' = [dl EXCEPT ![c].pc = "done",
                           ![c].result = Pixbuf(cache_file.data, dl[c].size)]
     ELSE dl' = [dl EXCEPT ![c].pc = "remove", ![c].corrupt = TRUE]
  /\ UNCHANGED cache_file
  /\ UNCHANGED notImg

\* the descriptors of the other calls once the path is unlinked
Unlinked(d) ==
  [c \in Calls |-> IF d[c].fd = "live" THEN [d[c] EXCEPT !.fd = "orphan"]
                   ELSE d[c]]

\* (mutant) the corrupt file is kept and the code falls through to the fetch
RemoveFile_Keep(f) == f

\* the cache file after os.remove(cache_path)
RemoveFile(f) == Absent

\* except: os.remove(cache_path); a missing file raises FileNotFoundError,
\* which leaves download_image
DlRemove(c) ==
  /\ dl[c].pc = "remove"
  /\ IF cache_file.exists
     THEN /\ cache_file' = RemoveFile(cache_file)
          /\ dl' = [Unlinked(dl) EXCEPT ![c].pc = "get"]
     ELSE /\ cache_file' = cache_file
          /\ dl' = [dl EXCEPT ![c].pc = "done", ![c].result = Raised]
  /\ UNCHANGED notImg

\* requests.get(url, timeout=10, stream=True); response.raise_for_status()
\* outcome: "ok", "transport" (the GET raises), "status" (non-2xx)
DlGet(c, outcome, body) ==
  /\ dl[c].pc = "get"
  /\ IF outcome = "ok"
     THEN dl' = [dl EXCEPT ![c].pc = "open", ![c].gets = @ + 1,
                           ![c].body = body]
     ELSE dl' = [dl EXCEPT ![c].pc = "done", ![c].gets = @ + 1,
                           ![c].result = ReturnNone]
  /\ UNCHANGED cache_file
  /\ UNCHANGED notImg

\* with open(cache_path, 'wb') as f: creates the file or truncates it
DlOpen(c) ==
  /\ dl[c].pc = "open"
  /\ cache_file' = File(<< >>)
  /\ dl' = [dl EXCEPT ![c].pc = "write", ![c].fd = "live", ![c].off = 0]
  /\ UNCHANGED notImg

\* for chunk in response.iter_content(8192): f.write(chunk); then close
DlWrite(c) ==
  /\ dl[c].pc = "write"
  /\ IF dl[c].off < Len(dl[c].body)
     THEN /\ cache_file' =
               IF dl[c].fd = "live"
               THEN File(WriteAt(cache_file.data, dl[c].off, dl[c].body[dl[c].off + 1]))
               ELSE cache_file
          /\ dl' = [dl EXCEPT ![c].off = @ + 1]
     ELSE /\ cache_file' = cache_file
          /\ dl' = [dl EXCEPT ![c].pc = "final_decode", ![c].fd = "none"]
  /\ UNCHANGED notImg

\* iter_content raises part-way through the body: except -> return None
DlStreamFail(c) ==
  /\ dl[c].pc = "write"
  /\ dl[c].off < Len(dl[c].body)
  /\ dl' = [dl EXCEPT ![c].pc = "done", ![c].fd = "none",
                      ![c].result = ReturnNone]
  /\ UNCHANGED cache_file
  /\ UNCHANGED notImg

\* return Pixbuf.new_from_file_at_scale(cache_path, ...) after the download;
\* a failure is caught by `except Exception` and None is returned
DlFinalDecode(c) ==
  /\ dl[c].pc = "final_decode"
  /\ dl' = [dl EXCEPT ![c].pc = "done",
                      ![c].result =
                         IF cache_file.exists /\ Decodable(cache_file.data)
                         THEN Pixbuf(cache_file.data, dl[c].size)
                         ELSE ReturnNone]
  /\ UNCHANGED cache_file
  /\ UNCHANGED notImg

\* the cache directory when the program starts: the file of the URL is
\* absent, complete, cut short by an earlier failed download, or no image
CacheAtStart == {Absent, File(GoodImage), File(<<1>>), File(BadBody)}

ImgInit ==
  /\ cache_file \in CacheAtStart
  /\ dl = [c \in Calls |-> IdleCall]

(***************************************************************************)
(* Catalog normalisation: _parse_v2_response(data).                        *)
(*                                                                         *)
(* A decoded JSON object is a function from the keys it carries to their   *)
(* values; a response is its shape ("list": a bare array, "apps": an       *)
(* object with an 'apps' array, "other": anything else) and its items.     *)
(***************************************************************************)
RawFields ==
  {"id", "flatpakAppId", "name", "summary", "description", "categories",
   "icon", "screenshots"}

\* the value the sample records carry under each key
RawValue(f) ==
  CASE f = "id" -> "org.videolan.VLC"
    [] f = "flatpakAppId" -> "org.videolan.VLC.flatpak"
    [] f = "name" -> "VLC"
    [] f = "summary" -> "Media player"
    [] f = "description" -> "Plays most media files"
    [] f = "categories" -> <<"AudioVideo">>
    [] f = "icon" -> "https://flathub.org/icon.png"
    [] f = "screenshots" -> <<"https://flathub.org/shot.png">>

RawRecord(S) == [f \in S |-> RawValue(f)]

\* every raw record: one per subset of the optional fields
RawRecords == {RawRecord(S) : S \in SUBSET RawFields}

\* an array element that is no JSON object (app.get raises AttributeError)
NotADict == [notdict |-> TRUE]
IsDict(e) == "notdict" \notin DOMAIN e

NoDescription == "No description available"

\* dict.get(key, default)
Get(app, key, default) == IF key \in DOMAIN app THEN app[key] ELSE default

\* the dict literal appended for one app
ParseOne(app) ==
  [flatpakAppId |-> Get(app, "id", Get(app, "flatpakAppId", "")),
   name         |-> Get(app, "name", Get(app, "id", "")),
   summary      |-> Get(app, "summary", Get(app, "description", NoDescription)),
   categories   |-> Get(app, "categories", << >>),
   icon         |-> Get(app, "icon", ""),
   screenshots  |-> Get(app, "screenshots", << >>)]

\* for app in ...: apps.append({...}); an element that is no dict raises
ParseItems(items) ==
  IF \E i \in 1..Len(items) : ~IsDict(items[i])
  THEN [raised |-> TRUE, apps |-> << >>]
  ELSE [raised |-> FALSE, apps |-> [i \in 1..Len(items) |-> ParseOne(items[i])]]

\* (mutant) only the bare-array shape is handled
ParseV2_ListOnly(data) ==
  IF data.shape = "list" THEN ParseItems(data.items)
  ELSE [raised |-> FALSE, apps |-> << >>]

\* _parse_v2_response
ParseV2(data) ==
  IF data.shape = "list" THEN ParseItems(data.items)
  ELSE IF data.shape = "apps" THEN ParseItems(data.items)
  ELSE [raised |-> FALSE, apps |-> << >>]

Response(shape, items) == [shape |-> shape, items |-> items]

\* sample records used in responses of more than one record
SampleRecords ==
  {RawRecord({}), RawRecord({"id", "name", "summary"}),
   RawRecord({"flatpakAppId", "description"}), RawRecord(RawFields)}

\* sequences of 2..n sample records
SampleSeqs(n) ==
  UNION {[1..k -> SampleRecords] : k \in 2..n}

\* the responses _parse_v2_response is run on: every single record, and
\* runs of sample records, in each shape
ParseInputs ==
  {Response(sh, items) :
     sh \in {"list", "apps", "other"},
     items \in {<< >>} \cup {<<r>> : r \in RawRecords \cup {NotADict}}
               \cup SampleSeqs(MaxRecs)}

NotParsed == [raised |-> FALSE, apps |-> << >>, done |-> FALSE]

ParseIdle ==
  /\ p_data = Response("other", << >>)
  /\ p_out = NotParsed

ParseInit ==
  /\ p_data \in ParseInputs
  /\ p_out = NotParsed

\* one call of _parse_v2_response(p_data)
ParseCall ==
  /\ ~p_out.done
  /\ p_out' = [raised |-> ParseV2(p_data).raised,
               apps |-> ParseV2(p_data).apps, done |-> TRUE]
  /\ UNCHANGED p_data
  /\ UNCHANGED notParse

(***************************************************************************)
(* Catalog fallback: _load_apps_via_flatpak and _guess_category_from_id.   *)
(*                                                                         *)
(* The output of `flatpak remote-ls` is a sequence of lines, a line the    *)
(* sequence of its tab-separated columns; a column is either empty or     *)
(* text without white space around it.                                     *)
(***************************************************************************)
\* the characters of the ids and texts that appear as strings in the model
Chars(id) ==
  CASE id = "org.mozilla.firefox" -> <<"o", "r", "g", ".", "m", "o", "z", "i", "l", "l", "a", ".", "f", "i", "r", "e", "f", "o", "x">>
    [] id = "org.gimp.GIMP" -> <<"o", "r", "g", ".", "g", "i", "m", "p", ".", "G", "I", "M", "P">>
    [] id = "org.example.App" -> <<"o", "r", "g", ".", "e", "x", "a", "m", "p", "l", "e", ".", "A", "p", "p">>
    [] id = "org.videolan.VLC" -> <<"o", "r", "g", ".", "v", "i", "d", "e", "o", "l", "a", "n", ".", "V", "L", "C">>
    [] id = "org.kde.kdenlive" -> <<"o", "r", "g", ".", "k", "d", "e", ".", "k", "d", "e", "n", "l", "i", "v", "e">>
    [] id = "VLC" -> <<"V", "L", "C">>
    [] id = "GIMP" -> <<"G", "I", "M", "P">>
    [] id = "Firefox" -> <<"F", "i", "r", "e", "f", "o", "x">>
    [] id = "Kdenlive" -> <<"K", "d", "e", "n", "l", "i", "v", "e">>
    [] id = "Media player" -> <<"M", "e", "d", "i", "a", " ", "p", "l", "a", "y", "e", "r">>
    [] id = "Image editor" -> <<"I", "m", "a", "g", "e", " ", "e", "d", "i", "t", "o", "r">>
    [] id = "Web browser" -> <<"W", "e", "b", " ", "b", "r", "o", "w", "s", "e", "r">>
    [] id = "Video editor" -> <<"V", "i", "d", "e", "o", " ", "e", "d", "i", "t", "o", "r">>
    [] id = "vlc" -> <<"v", "l", "c">>
    [] id = "editor" -> <<"e", "d", "i", "t", "o", "r">>
    [] id = "org." -> <<"o", "r", "g", ".">>
    [] id = "zzz" -> <<"z", "z", "z">>
    [] id = "Media" -> <<"M", "e", "d", "i", "a">>
    [] OTHER -> << >>

\* str.lower() on one character
LowerChar(c) ==
  CASE c = "A" -> "a"
    [] c = "B" -> "b"
    [] c = "C" -> "c"
    [] c = "D" -> "d"
    [] c = "E" -> "e"
    [] c = "F" -> "f"
    [] c = "G" -> "g"
    [] c = "H" -> "h"
    [] c = "I" -> "i"
    [] c = "J" -> "j"
    [] c = "K" -> "k"
    [] c = "L" -> "l"
    [] c = "M" -> "m"
    [] c = "N" -> "n"
    [] c = "O" -> "o"
    [] c = "P" -> "p"
    [] c = "Q" -> "q"
    [] c = "R" -> "r"
    [] c = "S" -> "s"
    [] c = "T" -> "t"
    [] c = "U" -> "u"
    [] c = "V" -> "v"
    [] c = "W" -> "w"
    [] c = "X" -> "x"
    [] c = "Y" -> "y"
    [] c = "Z" -> "z"
    [] OTHER -> c

\* str.lower() on a character sequence
Lower(cs) == [i \in 1..Len(cs) |-> LowerChar(cs[i])]

\* app_id.lower(), as the characters of the lower-cased id
LowerChars(id) == Lower(Chars(id))

\* `term in text` on character sequences
Contains(text, term) ==
  \E k \in 0..(Len(text) - Len(term)) :
    \A j \in 1..Len(term) : text[k + j] = term[j]

\* the if / elif chain of _guess_category_from_id, in its order
CategoryRules ==
  <<[category |-> "Network",
      terms |-> <<<<"f", "i", "r", "e", "f", "o", "x">>,
                  <<"c", "h", "r", "o", "m", "e">>,
                  <<"t", "e", "l", "e", "g", "r", "a", "m">>,
                  <<"d", "i", "s", "c", "o", "r", "d">>,
                  <<"t", "h", "u", "n", "d", "e", "r", "b", "i", "r", "d">>>>],
     [category |-> "Office",
      terms |-> <<<<"l", "i", "b", "r", "e", "o", "f", "f", "i", "c", "e">>,
                  <<"w", "r", "i", "t", "e", "r">>,
                  <<"c", "a", "l", "c">>>>],
     [category |-> "Graphics",
      terms |-> <<<<"g", "i", "m", "p">>,
                  <<"i", "n", "k", "s", "c", "a", "p", "e">>,
                  <<"b", "l", "e", "n", "d", "e", "r">>,
                  <<"k", "r", "i", "t", "a">>>>],
     [category |-> "AudioVideo",
      terms |-> <<<<"v", "l", "c">>,
                  <<"a", "u", "d", "a", "c", "i", "t", "y">>,
                  <<"s", "p", "o", "t", "i", "f", "y">>>>],
     [category |-> "Game",
      terms |-> <<<<"s", "t", "e", "a", "m">>,
                  <<"g", "a", "m", "e">>,
                  <<"c", "h", "e", "s", "s">>,
                  <<"p", "u", "z", "z", "l", "e">>>>],
     [category |-> "Development",
      terms |-> <<<<"c", "o", "d", "e">>,
                  <<"a", "t", "o", "m">>,
                  <<"e", "c", "l", "i", "p", "s", "e">>,
                  <<"g", "i", "t">>>>],
     [category |-> "Utility",
      terms |-> <<<<"c", "a", "l", "c", "u", "l", "a", "t", "o", "r">>,
                  <<"a", "r", "c", "h", "i", "v", "e">>,
                  <<"f", "i", "l", "e">>>>]>>

RuleMatches(r, text) ==
  \E t \in 1..Len(CategoryRules[r].terms) :
    Contains(text, CategoryRules[r].terms[t])

\* (variant) the id is matched as it is written, without lower()
GuessFromChars_CaseSensitive(cs) ==
  LET hits == {r \in 1..Len(CategoryRules) : RuleMatches(r, cs)}
  IN  IF hits = {} THEN <<"Other">>
      ELSE <<CategoryRules[CHOOSE r \in hits : \A q \in hits : r <= q].category>>

\* _guess_category_from_id on the characters of the id
GuessFromChars(cs) ==
  LET text == Lower(cs)
      hits == {r \in 1..Len(CategoryRules) : RuleMatches(r, text)}
  IN  IF hits = {} THEN <<"Other">>
      ELSE <<CategoryRules[CHOOSE r \in hits : \A q \in hits : r <= q].category>>

\* _guess_category_from_id
GuessCategory(id) == GuessFromChars(Chars(id))

(***************************************************************************)
(* _guess_category_from_id on bounded ids: the ids named above and every   *)
(* concatenation of up to MaxChunks chunks.                                *)
(***************************************************************************)
GuessChunks ==
  {<<"o", "r", "g", ".">>, <<"x">>, <<"G", "I", "M", "P">>,
   <<"f", "i", "r", "e", "f", "o", "x">>, <<"F", "i", "l", "e">>,
   <<"c", "a", "l", "c", "u", "l", "a", "t", "o", "r">>, <<"g", "i", "t">>,
   <<"V", "L", "C">>, <<"g", "a", "m", "e">>, <<"c", "o", "d">>, <<"e">>}

RECURSIVE ChunkRuns(_)
ChunkRuns(n) ==
  IF n = 0 THEN {<< >>}
  ELSE ChunkRuns(n - 1)
       \cup {r \o c : r \in ChunkRuns(n - 1), c \in GuessChunks}

GuessInputs ==
  {Chars("org.mozilla.firefox"), Chars("org.gimp.GIMP"),
   Chars("org.example.App")} \cup ChunkRuns(MaxChunks)

NotGuessed == <<"-">>

GuessIdle ==
  /\ g_id = << >>
  /\ g_out = NotGuessed

GuessInit ==
  /\ g_id \in GuessInputs
  /\ g_out = NotGuessed

\* one call of _guess_category_from_id(g_id)
GuessCall ==
  /\ g_out = NotGuessed
  /\ g_out' = GuessFromChars(g_id)
  /\ UNCHANGED g_id
  /\ UNCHANGED notGuess

\* popular_apps
PopularApps ==
  <<<<"org.mozilla.firefox", "Firefox", "Web browser", <<"Network">>>>,
     <<"org.libreoffice.LibreOffice", "LibreOffice", "Office suite", <<"Office">>>>,
     <<"org.gimp.GIMP", "GIMP", "Image editor", <<"Graphics">>>>,
     <<"org.videolan.VLC", "VLC", "Media player", <<"AudioVideo">>>>,
     <<"org.blender.Blender", "Blender", "3D creation suite", <<"Graphics">>>>,
     <<"com.valvesoftware.Steam", "Steam", "Gaming platform", <<"Game">>>>,
     <<"org.telegram.desktop", "Telegram", "Messaging app", <<"Network">>>>,
     <<"com.spotify.Client", "Spotify", "Music streaming", <<"AudioVideo">>>>,
     <<"org.gnome.gedit", "Text Editor", "Simple text editor", <<"Utility">>>>,
     <<"org.kde.kate", "Kate", "Advanced text editor", <<"Development">>>>>>

\* the records appended from popular_apps
SeedApps ==
  [i \in 1..Len(PopularApps) |->
     [flatpakAppId |-> PopularApps[i][1], name |-> PopularApps[i][2],
      summary |-> PopularApps[i][3], categories |-> PopularApps[i][4]]]

BlankLine(line) == \A i \in 1..Len(line) : line[i] = ""

RECURSIVE DropLeadingBlank(_)
DropLeadingBlank(q) ==
  IF q # << >> /\ Head(q) = "" THEN DropLeadingBlank(Tail(q)) ELSE q

RECURSIVE DropTrailingBlank(_)
DropTrailingBlank(q) ==
  IF q # << >> /\ q[Len(q)] = ""
  THEN DropTrailingBlank(SubSeq(q, 1, Len(q) - 1)) ELSE q

RECURSIVE DropLeadingBlankLines(_)
DropLeadingBlankLines(ls) ==
  IF ls # << >> /\ BlankLine(Head(ls)) THEN DropLeadingBlankLines(Tail(ls))
  ELSE ls

RECURSIVE DropTrailingBlankLines(_)
DropTrailingBlankLines(ls) ==
  IF ls # << >> /\ BlankLine(ls[Len(ls)])
  THEN DropTrailingBlankLines(SubSeq(ls, 1, Len(ls) - 1)) ELSE ls

\* result.stdout.strip().split('\n'): white space, tabs included, is removed
\* from both ends of the whole output
StripSplit(stdout) ==
  LET ls == DropTrailingBlankLines(DropLeadingBlankLines(stdout))
  IN  IF ls = << >> THEN <<<<"">>>>
      ELSE [i \in 1..Len(ls) |->
              LET a == IF i = 1 THEN DropLeadingBlank(ls[i]) ELSE ls[i]
              IN  IF i = Len(ls) THEN DropTrailingBlank(a) ELSE a]

\* if line.strip() and '\t' in line: ... if len(parts) >= 2
LineParses(parts) == ~BlankLine(parts) /\ Len(parts) >= 2

\* the dict appended for one line
ParseLsLine(parts) ==
  [flatpakAppId |-> parts[1],
   name         |-> IF parts[2] # "" THEN parts[2] ELSE parts[1],
   summary      |-> IF Len(parts) > 2 THEN parts[3] ELSE NoDescription,
   categories   |-> GuessCategory(parts[1])]

RECURSIVE ParseLsLines(_)
ParseLsLines(ls) ==
  IF ls = << >> THEN << >>
  ELSE (IF LineParses(Head(ls)) THEN <<ParseLsLine(Head(ls))>> ELSE << >>)
       \o ParseLsLines(Tail(ls))

\* how one `flatpak remote-ls` call ends: how |-> "launch" (the binary
\* cannot be started), "timeout" (30 s pass), "exit" with code rc and stdout
LsRun(how, rc, stdout) == [how |-> how, rc |-> rc, stdout |-> stdout]

\* _load_apps_via_flatpak: an exception of subprocess.run is caught after
\* the whole try body, the seed list included, has been skipped
LoadAppsViaFlatpak(ls) ==
  IF ls.how \in {"launch", "timeout"} THEN << >>
  ELSE LET apps == IF ls.rc = 0 THEN ParseLsLines(StripSplit(ls.stdout))
                   ELSE << >>
       IN  IF apps = << >> THEN SeedApps ELSE apps

(***************************************************************************)
(* Catalog loader: load_flathub_apps, one thread per load.                 *)
(***************************************************************************)
Loads == 1..MaxLoads

\* how requests.get, raise_for_status and response.json() end
ApiOutcomes == {"ok", "transport", "timeout", "status", "json"}

\* decoded API responses
ApiResponses ==
  {Response("apps", <<RawRecord({"id", "name", "summary"})>>),
   Response("list", <<RawRecord(RawFields), RawRecord({"flatpakAppId"})>>),
   Response("list", <<NotADict>>),
   Response("other", << >>)}

\* outputs of `flatpak remote-ls --columns=application,name,description`
LsOutputs ==
  {<< >>,
   <<<<"no tab in this line">>>>,
   <<<<"org.gimp.GIMP", "">>>>,
   <<<<"org.mozilla.firefox", "Firefox", "Web browser">>>>,
   <<<<"org.gimp.GIMP", "">>, <<"">>, <<"org.example.App", "Example">>>>}

LsRuns ==
  {LsRun("launch", 0, << >>), LsRun("timeout", 0, << >>)}
  \cup {LsRun("exit", rc, out) : rc \in {0, 1}, out \in LsOutputs}

NoLs == LsRun("none", 0, << >>)

\* what _load_apps_via_flatpak returns for each of these runs
FallbackCatalog == [r \in LsRuns |-> LoadAppsViaFlatpak(r)]

IdleLoad ==
  [pc |-> "idle", api |-> "none", data |-> Response("other", << >>),
   ls |-> NoLs, api_calls |-> 0, ls_calls |-> 0, assigned |-> << >>,
   posts |-> << >>]

CatIdle ==
  /\ available_apps = << >>
  /\ ld = [l \in Loads |-> IdleLoad]

\* setup_store_tab has started the first load_flathub_apps thread
CatInit ==
  /\ available_apps = << >>
  /\ ld = [l \in Loads |-> IF l = 1 THEN [IdleLoad EXCEPT !.pc = "begin"]
                           ELSE IdleLoad]

\* threading.Thread(target=self.load_flathub_apps).start() in refresh_apps
StartCatalogLoad(l) ==
  /\ ld[l].pc = "idle"
  /\ \A k \in Loads : k < l => ld[k].pc # "idle"
  /\ ld' = [ld EXCEPT ![l].pc = "begin"]
  /\ UNCHANGED available_apps
  /\ UNCHANGED notCat

\* GLib.idle_add(self.show_loading, True); GLib.idle_add(self.show_status, ..)
CatBegin(l) ==
  /\ ld[l].pc = "begin"
  /\ ld' = [ld EXCEPT ![l].pc = "api",
                      ![l].posts = @ \o <<"show_loading(True)", "show_status">>]
  /\ UNCHANGED available_apps
  /\ UNCHANGED notCat

\* does the inner try body raise?
ApiRaises(outcome, data) == outcome # "ok" \/ ParseV2(data).raised

\* (mutant) the fallback runs after the try body whether or not it raised
AfterApi_AlwaysFallback(raised) == "fallback"

\* where load_flathub_apps goes after the inner try body
AfterApi(raised) == IF raised THEN "fallback" ELSE "finish"

\* the inner try: requests.get, raise_for_status, response.json(),
\* _parse_v2_response, the assignment; and the first line of the except
CatApi(l, outcome, data) ==
  /\ ld[l].pc = "api"
  /\ LET raised == ApiRaises(outcome, data)
         apps == ParseV2(data).apps
     IN  /\ available_apps' = IF raised THEN available_apps ELSE apps
         /\ ld' = [ld EXCEPT
              ![l].pc = AfterApi(raised),
              ![l].api = IF raised THEN "raised" ELSE "ok",
              ![l].data = IF outcome = "ok" THEN data ELSE @,
              ![l].api_calls = @ + 1,
              ![l].assigned = IF raised THEN @ ELSE Append(@, apps),
              ![l].posts = Append(@, "show_status")]
  /\ UNCHANGED notCat

\* except: self.available_apps = self._load_apps_via_flatpak(); show_status
CatFallback(l, run) ==
  /\ ld[l].pc = "fallback"
  /\ LET apps == FallbackCatalog[run]
     IN  /\ available_apps' = apps
         /\ ld' = [ld EXCEPT
              ![l].pc = "finish",
              ![l].ls = run,
              ![l].ls_calls = @ + 1,
              ![l].assigned = Append(@, apps),
              ![l].posts = Append(@, "show_status")]
  /\ UNCHANGED notCat

\* GLib.idle_add(self.show_loading, False); GLib.idle_add(self.display_apps)
CatFinish(l) ==
  /\ ld[l].pc = "finish"
  /\ ld' = [ld EXCEPT ![l].pc = "done",
                      ![l].posts = @ \o <<"show_loading(False)", "display_apps">>]
  /\ UNCHANGED available_apps
  /\ UNCHANGED notCat

(***************************************************************************)
(* Debounced search: on_search_changed and the 300 ms GLib timeout.        *)
(*                                                                         *)
(* A source is what GLib.timeout_add creates; its id is its index in       *)
(* `sources`.  It is "pending" until it fires or is removed.               *)
(***************************************************************************)
\* what the search entry can hold
EntryTexts == {"", "vlc", " vlc ", "gimp"}

\* str.strip() on the entry texts
Strip(text) == IF text = " vlc " THEN "vlc" ELSE text

\* hasattr(self, 'search_timeout') is False
NoHandle == 0

SearchIdle ==
  /\ search_timeout = NoHandle
  /\ sources = << >>
  /\ events = << >>
  /\ display_calls = << >>

IsPending(srcs, h) == h \in DOMAIN srcs /\ srcs[h].state = "pending"

\* (variant) the pending timer is left armed
SourceRemove_LeaveArmed(srcs, h) == srcs

\* GLib.source_remove(h): a pending source is destroyed; an id that names
\* no source of this model only logs a warning
SourceRemove(srcs, h) ==
  IF IsPending(srcs, h) THEN [srcs EXCEPT ![h].state = "removed"] ELSE srcs

\* GLib.timeout_add(300, lambda: self.display_apps(search_term))
TimeoutAdd(srcs, term) == Append(srcs, [state |-> "pending", term |-> term])

\* the search-changed signal with the entry holding `text`
on_search_changed(text) ==
  /\ Len(events) < MaxEvents
  /\ LET search_term == Strip(text)
         kept == IF search_timeout # NoHandle
                 THEN SourceRemove(sources, search_timeout) ELSE sources
     IN  /\ sources' = TimeoutAdd(kept, search_term)
         /\ search_timeout' = Len(sources')
         /\ events' = Append(events,
              [text |-> text,
               cancelled |-> search_timeout,
               prev_pending |-> IsPending(sources, search_timeout)])
  /\ UNCHANGED display_calls
  /\ UNCHANGED notSearch

\* what the timer callback returns to GLib: display_apps has no return
\* value, so the source is not re-armed
CallbackReturns == FALSE

\* the main loop runs the callback of a pending source after 300 ms
TimerFire(h) ==
  /\ IsPending(sources, h)
  /\ display_calls' = Append(display_calls, [handle |-> h, term |-> sources[h].term])
  /\ sources' = IF CallbackReturns THEN sources
                ELSE [sources EXCEPT ![h].state = "fired"]
  /\ UNCHANGED <<search_timeout, events>>
  /\ UNCHANGED notSearch

(***************************************************************************)
(* Catalog filter: filter_apps(search_term).                               *)
(***************************************************************************)
\* search_lower in text.lower(), both given as strings
InLowered(term, text) == Contains(Lower(Chars(text)), Lower(Chars(term)))

\* the category test of the loop body: does the record pass?
PassesCategory(app, category) ==
  category = "all"
  \/ \E i \in 1..Len(Get(app, "categories", << >>)) :
       Get(app, "categories", << >>)[i] = category

\* (variant) the term is looked for in the name only
PassesSearch_NameOnly(app, term) ==
  term = "" \/ InLowered(term, Get(app, "name", ""))

\* the search test of the loop body: does the record pass?
PassesSearch(app, term) ==
  term = ""
  \/ InLowered(term, Get(app, "name", ""))
  \/ InLowered(term, Get(app, "summary", ""))
  \/ InLowered(term, Get(app, "flatpakAppId", ""))

\* filter_apps: the loop over self.available_apps
RECURSIVE FilterApps(_, _, _)
FilterApps(apps, category, term) ==
  IF apps = << >> THEN << >>
  ELSE (IF PassesCategory(Head(apps), category) /\ PassesSearch(Head(apps), term)
        THEN <<Head(apps)>> ELSE << >>)
       \o FilterApps(Tail(apps), category, term)

CatalogRecord(id, name, summary, categories) ==
  [flatpakAppId |-> id, name |-> name, summary |-> summary,
   categories |-> categories]

\* the API record of VLC that carries no categories
VlcRecord == CatalogRecord("org.videolan.VLC", "VLC", "Media player", << >>)

FilterRecords ==
  {VlcRecord,
   CatalogRecord("org.gimp.GIMP", "GIMP", "Image editor", <<"Graphics">>),
   CatalogRecord("org.mozilla.firefox", "Firefox", "Web browser", <<"Network">>),
   CatalogRecord("org.kde.kdenlive", "Kdenlive", "Video editor",
                 <<"AudioVideo", "Graphics">>)}

FilterCatalogs == UNION {[1..n -> FilterRecords] : n \in 0..MaxCatalog}

\* the categories of the sidebar buttons used here
FilterCategories == {"all", "AudioVideo", "Graphics", "Network"}

FilterTerms == {"", "vlc", "VLC", "editor", "org.", "Media", "zzz"}

\* the call has not returned
NotFiltered == <<[pending |-> TRUE]>>

FilterIdle ==
  /\ f_apps = << >>
  /\ f_category = "all"
  /\ f_term = ""
  /\ f_out = NotFiltered

FilterInit ==
  /\ f_apps \in FilterCatalogs
  /\ f_category \in FilterCategories
  /\ f_term \in FilterTerms
  /\ f_out = NotFiltered

\* one call of filter_apps(f_term)
FilterCall ==
  /\ f_out = NotFiltered
  /\ f_out' = FilterApps(f_apps, f_category, f_term)
  /\ UNCHANGED <<f_apps, f_category, f_term>>
  /\ UNCHANGED notFilter

(***************************************************************************)
(* Thread view: every routine as the statements it executes, and the       *)
(* thread that executes them.  A statement is                              *)
(*   <<"E", what>>   an effect: a mutation of shared state, a blocking     *)
(*                   call or a change of a widget                          *)
(*   <<"P", fn>>     GLib.idle_add(fn, ...)                                *)
(*   <<"T", fn>>     threading.Thread(target=fn, daemon=True).start()      *)
(* A direct call is the callee's statements in place.  BodiesOf(fn) is the   *)
(* the set of statement sequences fn can execute, one per path.           *)
(***************************************************************************)
E(what) == <<"E", what>>
P(fn) == <<"P", fn>>
T(fn) == <<"T", fn>>

\* load_installed_apps: flatpak list fails / lists nothing / lists one app
load_installed_apps_bodies ==
  {<<E("subprocess"), P("show_status")>>,
   <<E("subprocess"), E("installed_apps.clear"), P("clear_installed_container")>>,
   <<E("subprocess"), E("installed_apps.clear"), P("clear_installed_container"),
     E("installed_apps.add"), P("add_installed_app_card")>>}

\* display_apps: no record to show / one card, whose add_app_card starts the
\* banner and the icon load_worker
display_apps_bodies ==
  {<<E("cards")>>,
   <<E("cards"), T("load_worker"), T("load_worker")>>}

\* refresh_current_view: the Store tab or the Installed tab is current
refresh_current_view_bodies ==
  display_apps_bodies \cup load_installed_apps_bodies

\* the finally block of install_worker and uninstall_worker
FinallyStatements ==
  <<E("current_operations.del"), P("refresh_current_view"),
    P("show_progress")>>

\* install_worker: exit code 0 (one output line read) / non-zero / Popen raises
install_worker_bodies ==
  {<<E("progress_bar"), P("show_status"), E("subprocess"), P("show_status"),
     E("subprocess"), E("installed_apps.add"), P("show_status"),
     P("load_installed_apps")>> \o FinallyStatements,
   <<E("progress_bar"), P("show_status"), E("subprocess"), E("subprocess"),
     P("show_status")>> \o FinallyStatements,
   <<E("progress_bar"), P("show_status"), P("show_status")>>
     \o FinallyStatements}

\* uninstall_worker: exit code 0 / non-zero / subprocess.run raises
uninstall_worker_bodies ==
  {<<E("progress_bar"), P("show_status"), E("subprocess"),
     E("installed_apps.discard"), P("show_status"), P("load_installed_apps")>>
     \o FinallyStatements,
   <<E("progress_bar"), P("show_status"), E("subprocess"), P("show_status")>>
     \o FinallyStatements,
   <<E("progress_bar"), P("show_status"), P("show_status")>>
     \o FinallyStatements}

\* update_worker: the subprocess exits (either code) / subprocess.run raises
update_worker_bodies ==
  {<<P("show_status"), E("subprocess"), P("show_status"),
     E("current_operations.del"), P("load_installed_apps")>>,
   <<P("show_status"), P("show_status"),
     E("current_operations.del"), P("load_installed_apps")>>}

\* update_all_worker: the subprocess exits (either code) / subprocess.run raises
update_all_worker_bodies ==
  {<<P("show_status"), P("show_progress"), E("subprocess"), P("show_status"),
     P("load_installed_apps"), P("show_progress")>>,
   <<P("show_status"), P("show_progress"), P("show_status"),
     P("show_progress")>>}

\* load_flathub_apps: the API answers / the API fails and remote-ls is run
load_flathub_apps_bodies ==
  {<<P("show_loading"), P("show_status"), E("network"),
     E("available_apps.assign"), P("show_status"), P("show_loading"),
     P("display_apps")>>,
   <<P("show_loading"), P("show_status"), E("network"), P("show_status"),
     E("subprocess"), E("available_apps.assign"), P("show_status"),
     P("show_loading"), P("display_apps")>>}

\* load_worker of load_app_media_async: a pixbuf is obtained / none is
load_worker_bodies ==
  {<<E("network"), P("set_from_pixbuf")>>, <<E("network")>>}

\* the click handlers
install_app_bodies ==
  {<<E("current_operations.set")>> \o b \o <<T("install_worker")>> :
     b \in display_apps_bodies}

\* uninstall_app: the dialog is answered No / Yes
uninstall_app_bodies ==
  {<< >>}
  \cup {<<E("current_operations.set")>> \o b \o <<T("uninstall_worker")>> :
          b \in refresh_current_view_bodies}

update_app_bodies == {<<E("current_operations.set"), T("update_worker")>>}

update_all_apps_bodies == {<<T("update_all_worker")>>}

refresh_apps_bodies == {<<T("load_flathub_apps"), T("load_installed_apps")>>}

\* __init__: setup_ui starts the catalog thread, then load_installed_apps()
init_bodies ==
  {<<T("load_flathub_apps")>> \o b : b \in load_installed_apps_bodies}

BodiesOf(fn) ==
  CASE fn = "load_installed_apps" -> load_installed_apps_bodies
    [] fn = "display_apps" -> display_apps_bodies
    [] fn = "refresh_current_view" -> refresh_current_view_bodies
    [] fn = "install_worker" -> install_worker_bodies
    [] fn = "uninstall_worker" -> uninstall_worker_bodies
    [] fn = "update_worker" -> update_worker_bodies
    [] fn = "update_all_worker" -> update_all_worker_bodies
    [] fn = "load_flathub_apps" -> load_flathub_apps_bodies
    [] fn = "load_worker" -> load_worker_bodies
    [] fn = "install_app" -> install_app_bodies
    [] fn = "uninstall_app" -> uninstall_app_bodies
    [] fn = "update_app" -> update_app_bodies
    [] fn = "update_all_apps" -> update_all_apps_bodies
    [] fn = "refresh_apps" -> refresh_apps_bodies
    [] fn = "show_status" -> {<<E("status_bar")>>}
    [] fn = "show_progress" -> {<<E("progress_bar")>>}
    [] fn = "show_loading" -> {<<E("spinner")>>}
    [] fn = "clear_installed_container" -> {<<E("cards")>>}
    [] fn = "add_installed_app_card" -> {<<E("cards")>>}
    [] fn = "set_from_pixbuf" -> {<<E("image")>>}

\* the handlers connected to buttons
ClickHandlers ==
  {"install_app", "uninstall_app", "update_app", "update_all_apps",
   "refresh_apps"}

ThreadIds == 1..MaxThreads

\* a thread slot that has not been started
NotStarted == <<<<"-", "-">>>>

ThrIdle ==
  /\ t_ui = << >>
  /\ t_wk = [w \in ThreadIds |-> NotStarted]
  /\ t_clicks = 0
  /\ tq = << >>
  /\ tlog = {}

\* FlatpakStore() is being constructed on the UI thread
ThrInit ==
  /\ t_ui \in init_bodies
  /\ t_wk = [w \in ThreadIds |-> NotStarted]
  /\ t_clicks = 0
  /\ tq = << >>
  /\ tlog = {}

\* the user clicks a button while the main loop is idle
Click(fn) ==
  /\ t_ui = << >> /\ t_clicks < MaxClicks
  /\ t_ui' \in BodiesOf(fn)
  /\ t_clicks' = t_clicks + 1
  /\ UNCHANGED <<t_wk, tq, tlog>>
  /\ UNCHANGED notThr

\* the main loop takes the callback at the head of the idle queue
IdleDispatch ==
  /\ t_ui = << >> /\ tq # << >>
  /\ t_ui' \in BodiesOf(Head(tq))
  /\ tq' = Tail(tq)
  /\ UNCHANGED <<t_wk, t_clicks, tlog>>
  /\ UNCHANGED notThr

FreeSlots == {w \in ThreadIds : t_wk[w] = NotStarted}

\* the calls a thread waits in
BlockingCalls == {"network", "subprocess"}

IsBlocking(st) == st[1] = "E" /\ st[2] \in BlockingCalls

\* A step of a thread runs its statements from one blocking call up to the
\* next one, and ends early when it has started a thread.
StopAt(todo) ==
  CHOOSE k \in 1..Len(todo) :
    /\ k = Len(todo) \/ todo[k][1] = "T" \/ IsBlocking(todo[k + 1])
    /\ \A j \in 1..(k - 1) : todo[j][1] # "T" /\ ~IsBlocking(todo[j + 1])

EffectsBefore(todo, k) == {todo[i][2] : i \in {j \in 1..k : todo[j][1] = "E"}}

Logged(thread, todo) ==
  tlog \cup {<<thread, what>> : what \in EffectsBefore(todo, StopAt(todo))}

IsPost(st) == st[1] = "P"

Posted(todo) ==
  LET posts == SelectSeq(SubSeq(todo, 1, StopAt(todo)), IsPost)
  IN  tq \o [i \in 1..Len(posts) |-> posts[i][2]]

Rest(todo) == SubSeq(todo, StopAt(todo) + 1, Len(todo))

\* the UI thread runs on in its handler; a thread beyond MaxThreads is left
\* out of the run
UiStep ==
  /\ t_ui # << >>
  /\ tlog' = Logged("ui", t_ui)
  /\ tq' = Posted(t_ui)
  /\ LET st == t_ui[StopAt(t_ui)]
     IN  IF st[1] = "T" /\ FreeSlots # {}
         THEN \E body \in BodiesOf(st[2]) :
                t_wk' = [t_wk EXCEPT
                  ![CHOOSE w \in FreeSlots : \A v \in FreeSlots : w <= v] = body]
         ELSE t_wk' = t_wk
  /\ t_ui' = Rest(t_ui)
  /\ UNCHANGED t_clicks
  /\ UNCHANGED notThr

\* worker thread w runs on
WorkerStep(w) ==
  /\ t_wk[w] # NotStarted /\ t_wk[w] # << >>
  /\ tlog' = Logged("worker", t_wk[w])
  /\ tq' = Posted(t_wk[w])
  /\ t_wk' = [t_wk EXCEPT ![w] = Rest(@)]
  /\ UNCHANGED <<t_ui, t_clicks>>
  /\ UNCHANGED notThr

(***************************************************************************)
(* Card images: display_apps, add_app_card and load_app_media_async.       *)
(*                                                                         *)
(* Every card carries two image widgets, the banner and the icon, and      *)
(* add_app_card starts one load_worker thread for each.  A widget is       *)
(* attached while it has a parent; destroying the card detaches it.        *)
(***************************************************************************)
\* for app in filtered_apps[:50]
DisplayCap == 50

\* the number of cards a pass builds for n filtered records
Shown(n) == IF n > DisplayCap THEN DisplayCap ELSE n

\* the two load_app_media_async calls of add_app_card
CardImages == <<"banner", "icon">>

NewWidget(pass, card, kind) ==
  [pass |-> pass, card |-> card, kind |-> kind, attached |-> TRUE,
   image |-> "placeholder", thread |-> "running"]

\* the widgets of the cards one pass builds, in the order of their threads
NewWidgets(pass, n) ==
  [i \in 1..(2 * Shown(n)) |->
     NewWidget(pass, (i + 1) \div 2, CardImages[2 - (i % 2)])]

\* for child in self.apps_container.get_children(): child.destroy()
DestroyChildren(ws) == [i \in DOMAIN ws |-> [ws[i] EXCEPT !.attached = FALSE]]

\* how many records filter_apps hands to a pass
RecordCounts == {0, 1}

MediaIdle ==
  /\ mw = << >>
  /\ mq = << >>
  /\ m_passes = 0
  /\ m_log = {}

\* display_apps on the UI thread with n filtered records
display_apps(n) ==
  /\ m_passes < MaxPasses
  /\ mw' = DestroyChildren(mw) \o NewWidgets(m_passes + 1, n)
  /\ m_passes' = m_passes + 1
  /\ UNCHANGED <<mq, m_log>>
  /\ UNCHANGED notMedia

\* load_worker of widget w ends: with a pixbuf it posts the callback
LoadWorkerEnds(w, pixbuf) ==
  /\ w \in DOMAIN mw /\ mw[w].thread = "running"
  /\ mw' = [mw EXCEPT ![w].thread = "ended"]
  /\ mq' = IF pixbuf THEN Append(mq, w) ELSE mq
  /\ UNCHANGED <<m_passes, m_log>>
  /\ UNCHANGED notMedia

\* (variant) the pixbuf is set whether or not the widget has a parent
ApplyPixbuf_Unchecked(widget) == [widget EXCEPT !.image = "pixbuf"]

\* image_widget.set_from_pixbuf(pixbuf)
\*   if not image_widget.get_parent() is None else None
ApplyPixbuf(widget) ==
  IF widget.attached THEN [widget EXCEPT !.image = "pixbuf"] ELSE widget

\* the main loop runs the callback at the head of the queue
RunImageCallback ==
  /\ mq # << >>
  /\ LET w == Head(mq)
     IN  /\ mw' = [mw EXCEPT ![w] = ApplyPixbuf(mw[w])]
         /\ m_log' = m_log \cup
              {[widget |-> w, attached |-> mw[w].attached,
                before |-> mw[w].image, after |-> mw'[w].image]}
  /\ mq' = Tail(mq)
  /\ UNCHANGED m_passes
  /\ UNCHANGED notMedia

(***************************************************************************)
(* Screenshot lookup: get_app_screenshot_urls(app_id).                     *)
(*                                                                         *)
(* A URL is a record: the icon URL built from the id, the URL a screenshot *)
(* entry carries, or the empty string.                                     *)
(***************************************************************************)
\* get_app_icon_url
IconUrl(id) == [kind |-> "icon", of |-> id]

ShotUrl(name) == [kind |-> "shot", of |-> name]

\* ''
EmptyUrl == [kind |-> "empty", of |-> ""]

\* the entries of a screenshots list: with an imgDesktopUrl, without one,
\* and an entry that is no JSON object
ShotEntries ==
  {[imgDesktopUrl |-> ShotUrl("first.png")],
   [imgDesktopUrl |-> ShotUrl("second.png")],
   [thumbUrl |-> ShotUrl("thumb.png")],
   NotADict}

ShotLists == UNION {[1..n -> ShotEntries] : n \in 0..MaxShots}

\* how the detail request ends: how |-> "transport", "timeout", "json"
\* (the body is no JSON), or "answer" with a status code and the decoded
\* body, which carries a screenshots list or lacks the key
Detail(how, status, data) == [how |-> how, status |-> status, data |-> data]

NoData == [name |-> "-"]

DetailResponses ==
  {Detail(h, 0, NoData) : h \in {"transport", "timeout"}}
  \cup {Detail("json", 200, NoData)}
  \cup {Detail("answer", st, NoData) : st \in {204, 301, 404, 500}}
  \cup {Detail("answer", 200, NoData)}
  \cup {Detail("answer", 200, [screenshots |-> l]) : l \in ShotLists}

\* shot.get('imgDesktopUrl', '') for the first entry
FirstShotUrl(shots) == Get(shots[1], "imgDesktopUrl", EmptyUrl)

\* get_app_screenshot_urls
GetAppScreenshotUrls(id, resp) ==
  IF resp.how = "answer" /\ resp.status = 200
     /\ Get(resp.data, "screenshots", << >>) # << >>
     /\ IsDict(Get(resp.data, "screenshots", << >>)[1])
  THEN <<FirstShotUrl(resp.data.screenshots)>>
  ELSE <<IconUrl(id)>>

ShotIds == {"org.mozilla.firefox", "org.gimp.GIMP", "org.example.App"}

NotReturned == <<[kind |-> "pending", of |-> ""]>>

ShotsIdle ==
  /\ s_id = ""
  /\ s_resp = Detail("transport", 0, NoData)
  /\ s_out = NotReturned

ShotsInit ==
  /\ s_id \in ShotIds
  /\ s_resp \in DetailResponses
  /\ s_out = NotReturned

\* one call of get_app_screenshot_urls(s_id)
ShotsCall ==
  /\ s_out = NotReturned
  /\ s_out' = GetAppScreenshotUrls(s_id, s_resp)
  /\ UNCHANGED <<s_id, s_resp>>
  /\ UNCHANGED notShots

(***************************************************************************)
(* Installed-set load: load_installed_apps on the output of a              *)
(* `flatpak list --columns=application,name,description` that exited 0.    *)
(*                                                                         *)
(* The output is a sequence of lines and a line the sequence of its        *)
(* tab-separated fields, as in the catalog fallback.                       *)
(***************************************************************************)
\* the dict-free triple handed to add_installed_app_card for one line
InstalledEntry(parts) ==
  [app_id      |-> parts[1],
   name        |-> IF Len(parts) > 1 THEN parts[2] ELSE parts[1],
   description |-> IF Len(parts) > 2 THEN parts[3] ELSE NoDescription]

\* if line.strip(): parts = line.split('\t'); if len(parts) >= 2
ListLineParses(parts) == ~BlankLine(parts) /\ Len(parts) >= 2

\* the body of the try block after subprocess.run returned: the ids added
\* to installed_apps and the add_installed_app_card calls posted, in order
ParseInstalled(stdout) ==
  LET kept == SelectSeq(StripSplit(stdout), ListLineParses)
  IN  [ids     |-> {kept[i][1] : i \in 1..Len(kept)},
       entries |-> [i \in 1..Len(kept) |-> InstalledEntry(kept[i])],
       done    |-> TRUE]

\* lines of `flatpak list`: an id alone, id and name, or all three columns,
\* any of them possibly empty
ListLines ==
  {<<id>> : id \in {"", "app.a", "app.b"}}
  \cup {<<id, name>> : id \in {"", "app.a", "app.b"}, name \in {"", "Name"}}
  \cup {<<id, name, d>> : id \in {"", "app.a", "app.b"},
                          name \in {"", "Name"}, d \in {"", "Text"}}

RECURSIVE ListOutputs(_)
ListOutputs(n) ==
  IF n = 0 THEN {<< >>}
  ELSE LET shorter == ListOutputs(n - 1)
       IN  shorter \cup {Append(o, l) : o \in {x \in shorter : Len(x) = n - 1},
                                        l \in ListLines}

NotLoaded == [ids |-> {}, entries |-> << >>, done |-> FALSE]

ListIdle ==
  /\ l_stdout = << >>
  /\ l_out = NotLoaded

ListInit ==
  /\ l_stdout \in ListOutputs(MaxListLines)
  /\ l_out = NotLoaded

\* one run of load_installed_apps whose `flatpak list` printed l_stdout
ListCall ==
  /\ ~l_out.done
  /\ l_out' = ParseInstalled(l_stdout)
  /\ UNCHANGED l_stdout
  /\ UNCHANGED notList

(***************************************************************************)
(* Exceptions in worker threads.  A raise site is a statement executed by  *)
(* a thread's target function, directly or in a function it calls; its     *)
(* handlers are the except clauses of the try statements around it, the    *)
(* innermost first.  An exception goes to the first clause that matches     *)
(* its class, and leaves the thread if none does.                          *)
(***************************************************************************)
\* an except clause: the class it names ("bare" for `except:`), what its
\* body does ("status" posts a show_status message, "print" writes to
\* stdout, "pass" does nothing) and whether the statements the thread runs
\* after the clause post a show_status message
Handler(line, catches, effect, then_status) ==
  [line |-> line, catches |-> catches, effect |-> effect,
   then_status |-> then_status]

RaiseSite(worker, site, class, handlers) ==
  [worker |-> worker, site |-> site, class |-> class, handlers |-> handlers]

\* the raise sites of the thread targets, with the except clauses around
\* each; _load_apps_via_flatpak is called from the body of the except clause
\* at 709, so only the outer try of load_flathub_apps is around it
RaiseSites ==
  {RaiseSite("load_flathub_apps", "requests.get", "Exception",
             <<Handler(709, "bare", "status", TRUE),
               Handler(718, "Exception", "status", FALSE)>>),
   RaiseSite("load_flathub_apps", "remote-ls", "Exception",
             <<Handler(799, "Exception", "print", TRUE),
               Handler(718, "Exception", "status", FALSE)>>),
   RaiseSite("load_installed_apps", "flatpak list", "CalledProcessError",
             <<Handler(622, "CalledProcessError", "status", FALSE),
               Handler(624, "Exception", "status", FALSE)>>),
   RaiseSite("load_installed_apps", "flatpak list", "Exception",
             <<Handler(622, "CalledProcessError", "status", FALSE),
               Handler(624, "Exception", "status", FALSE)>>),
   RaiseSite("load_worker", "detail GET", "Exception",
             <<Handler(439, "bare", "pass", FALSE),
               Handler(499, "Exception", "print", FALSE)>>),
   RaiseSite("load_worker", "image GET", "Exception",
             <<Handler(473, "Exception", "print", FALSE),
               Handler(499, "Exception", "print", FALSE)>>),
   RaiseSite("load_worker", "os.remove", "Exception",
             <<Handler(499, "Exception", "print", FALSE)>>),
   RaiseSite("install_worker", "Popen", "Exception",
             <<Handler(1033, "Exception", "status", FALSE)>>),
   RaiseSite("uninstall_worker", "subprocess.run", "Exception",
             <<Handler(1081, "Exception", "status", FALSE)>>),
   RaiseSite("update_worker", "subprocess.run", "Exception",
             <<Handler(1111, "Exception", "status", FALSE)>>),
   RaiseSite("update_all_worker", "subprocess.run", "Exception",
             <<Handler(1139, "Exception", "status", FALSE)>>)}

\* does the except clause match an exception of this class?
Catches(h, class) == h.catches \in {"bare", "Exception"} \/ h.catches = class

\* no except clause matched: the exception leaves the thread's target
Uncaught == Handler(0, "none", "traceback", FALSE)

\* the except clause that handles an exception of this class
FirstHandler(handlers, class) ==
  LET hits == {i \in 1..Len(handlers) : Catches(handlers[i], class)}
  IN  IF hits = {} THEN Uncaught
      ELSE handlers[CHOOSE i \in hits : \A j \in hits : i <= j]

ExcIdle == x_log = << >>

\* an exception is raised at site s of a running worker thread
WorkerRaises(s) ==
  /\ Len(x_log) < MaxRaises
  /\ x_log' = Append(x_log, [worker |-> s.worker, site |-> s.site,
                             class |-> s.class,
                             by |-> FirstHandler(s.handlers, s.class)])
  /\ UNCHANGED notExc

(***************************************************************************)
(* Installed-set reload, statement by statement.  load_installed_apps      *)
(* runs on the UI thread (idle callbacks, refresh_current_view) and on the *)
(* thread refresh_apps starts; install_worker and uninstall_worker change  *)
(* the same set from their own threads.  Each set operation (clear, add,   *)
(* discard) is one step; threads are switched between them.               *)
(***************************************************************************)
\* ids `flatpak list` can print
ListedIds == {"a", "b"}

\* the ids of the lines a run parses, in the order of the output
ListedOutputs == {<< >>, <<"a">>, <<"b">>, <<"a", "b">>, <<"b", "a">>}

Reloads == 1..MaxReloads

\* a run: the thread it is on, where it is, the ids it parsed, the ids it
\* has still to add, whether another thread wrote the set after this run's
\* clear, and the set as it was when the run completed
IdleReload ==
  [thread |-> "none", pc |-> "idle", parsed |-> {}, todo |-> << >>,
   disturbed |-> FALSE, at_end |-> {}]

ReloadIdle ==
  /\ r_installed = {}
  /\ r_runs = [r \in Reloads |-> IdleReload]
  /\ r_changes = 0

ReloadInit ==
  /\ r_installed \in SUBSET ListedIds
  /\ r_runs = [r \in Reloads |-> IdleReload]
  /\ r_changes = 0

\* thread `self` wrote the set: the other runs that are between their clear
\* and their last add are disturbed
Disturb(runs, self) ==
  [r \in Reloads |->
     IF r # self /\ runs[r].pc = "add" THEN [runs[r] EXCEPT !.disturbed = TRUE]
     ELSE runs[r]]

\* load_installed_apps is entered: on the UI thread when the UI thread is
\* not inside another run, on a thread of its own after refresh_apps
ReloadStart(r, thread) ==
  /\ r_runs[r].pc = "idle"
  /\ \A q \in Reloads : q < r => r_runs[q].pc # "idle"
  /\ thread = "ui" =>
       \A q \in Reloads : r_runs[q].thread = "ui" => r_runs[q].pc = "done"
  /\ r_runs' = [r_runs EXCEPT ![r].thread = thread, ![r].pc = "run"]
  /\ UNCHANGED <<r_installed, r_changes>>
  /\ UNCHANGED notReload

\* subprocess.run returns with exit code 0 and this output
ReloadRunOk(r, out) ==
  /\ r_runs[r].pc = "run"
  /\ r_runs' = [r_runs EXCEPT ![r].pc = "clear", ![r].todo = out,
                              ![r].parsed = {out[i] : i \in 1..Len(out)}]
  /\ UNCHANGED <<r_installed, r_changes>>
  /\ UNCHANGED notReload

\* subprocess.run raises (check=True, or flatpak cannot be launched): the
\* except clauses post a status and the set is left alone
ReloadRunFails(r) ==
  /\ r_runs[r].pc = "run"
  /\ r_runs' = [r_runs EXCEPT ![r].pc = "failed"]
  /\ UNCHANGED <<r_installed, r_changes>>
  /\ UNCHANGED notReload

\* the run is over: the for loop has no line left
Completed(run, set) ==
  IF run.todo = << >> THEN [run EXCEPT !.pc = "done", !.at_end = set]
  ELSE [run EXCEPT !.pc = "add"]

\* self.installed_apps.clear()
ReloadClear(r) ==
  /\ r_runs[r].pc = "clear"
  /\ r_installed' = {}
  /\ r_runs' = [Disturb(r_runs, r) EXCEPT ![r] = Completed(r_runs[r], {})]
  /\ UNCHANGED r_changes
  /\ UNCHANGED notReload

\* self.installed_apps.add(app_id) for the next line
ReloadAdd(r) ==
  /\ r_runs[r].pc = "add"
  /\ LET set == r_installed \cup {Head(r_runs[r].todo)}
     IN  /\ r_installed' = set
         /\ r_runs' = [Disturb(r_runs, r) EXCEPT
                         ![r] = Completed([r_runs[r] EXCEPT !.todo = Tail(@)],
                                          set)]
  /\ UNCHANGED r_changes
  /\ UNCHANGED notReload

\* install_worker: self.installed_apps.add(app_id) on exit code 0;
\* uninstall_worker: self.installed_apps.discard(app_id)
OptimisticChange(kind, id) ==
  /\ r_changes < MaxChanges
  /\ r_changes' = r_changes + 1
  /\ r_installed' = IF kind = "install" THEN r_installed \cup {id}
                    ELSE r_installed \ {id}
  /\ r_runs' = Disturb(r_runs, 0)
  /\ UNCHANGED notReload

(***************************************************************************)
(* Loading spinner: load_flathub_apps as the sequence of its idle_add      *)
(* calls, and show_loading run by the UI thread.  The idle queue carries   *)
(* the show_loading calls only, each as its argument; the show_status and  *)
(* display_apps callbacks between them do not touch the spinner.           *)
(***************************************************************************)
\* a load: "begin" (before line 700), "api" (703-707), "fallback" (709-713),
\* "finish" (before 715), "display" (before 716), "done"; `hid` is whether
\* it has posted show_loading(False), `raised` whether it ended in the
\* outer except clause
IdleSpin == [pc |-> "idle", hid |-> FALSE, raised |-> FALSE]

SpinIdle ==
  /\ k_loads = [l \in Loads |-> IdleSpin]
  /\ k_queue = << >>
  /\ k_spinner = FALSE

\* setup_store_tab has started the first load; the spinner is created hidden
SpinInit ==
  /\ k_loads = [l \in Loads |-> IF l = 1 THEN [IdleSpin EXCEPT !.pc = "begin"]
                                ELSE IdleSpin]
  /\ k_queue = << >>
  /\ k_spinner = FALSE

\* refresh_apps starts another load_flathub_apps thread
SpinStart(l) ==
  /\ k_loads[l].pc = "idle"
  /\ \A j \in Loads : j < l => k_loads[j].pc # "idle"
  /\ k_loads' = [k_loads EXCEPT ![l].pc = "begin"]
  /\ UNCHANGED <<k_queue, k_spinner>>
  /\ UNCHANGED notSpin

\* GLib.idle_add(self.show_loading, True)
SpinBegin(l) ==
  /\ k_loads[l].pc = "begin"
  /\ k_queue' = Append(k_queue, TRUE)
  /\ k_loads' = [k_loads EXCEPT ![l].pc = "api"]
  /\ UNCHANGED k_spinner
  /\ UNCHANGED notSpin

\* the inner try: it ends normally, or raises and the bare except runs
SpinApi(l, raised) ==
  /\ k_loads[l].pc = "api"
  /\ k_loads' = [k_loads EXCEPT ![l].pc = AfterApi(raised)]
  /\ UNCHANGED <<k_queue, k_spinner>>
  /\ UNCHANGED notSpin

\* _load_apps_via_flatpak returns a list, empty or not
SpinFallback(l) ==
  /\ k_loads[l].pc = "fallback"
  /\ k_loads' = [k_loads EXCEPT ![l].pc = "finish"]
  /\ UNCHANGED <<k_queue, k_spinner>>
  /\ UNCHANGED notSpin

\* GLib.idle_add(self.show_loading, False)
SpinFinish(l) ==
  /\ k_loads[l].pc = "finish"
  /\ k_queue' = Append(k_queue, FALSE)
  /\ k_loads' = [k_loads EXCEPT ![l].pc = "display", ![l].hid = TRUE]
  /\ UNCHANGED k_spinner
  /\ UNCHANGED notSpin

\* GLib.idle_add(self.display_apps): the thread ends
SpinDisplay(l) ==
  /\ k_loads[l].pc = "display"
  /\ k_loads' = [k_loads EXCEPT ![l].pc = "done"]
  /\ UNCHANGED <<k_queue, k_spinner>>
  /\ UNCHANGED notSpin

\* (variant) the outer except clause reports the error only
OuterExceptPosts_StatusOnly(q) == q

\* except Exception: GLib.idle_add(self.show_loading, False)
OuterExceptPosts(q) == Append(q, FALSE)

\* a statement of the outer try body raises: the outer except clause runs
\* and the thread ends
SpinRaise(l) ==
  /\ k_loads[l].pc \in {"begin", "api", "fallback", "finish", "display"}
  /\ k_queue' = OuterExceptPosts(k_queue)
  /\ k_loads' = [k_loads EXCEPT ![l].pc = "done", ![l].raised = TRUE,
                                ![l].hid = @ \/ (k_queue' # k_queue)]
  /\ UNCHANGED k_spinner
  /\ UNCHANGED notSpin

\* the main loop runs the show_loading call at the head of the queue
show_loading ==
  /\ k_queue # << >>
  /\ k_spinner' = Head(k_queue)
  /\ k_queue' = Tail(k_queue)
  /\ UNCHANGED k_loads
  /\ UNCHANGED notSpin

(***************************************************************************)
(* Spec: the operation runner.  The program has started, the start-up      *)
(* load_installed_apps and catalog load are over and the queue is drained. *)
(***************************************************************************)
OpsInit ==
  /\ sys_installed \in SUBSET Ids
  /\ installed_apps = sys_installed
  /\ current_operations = << >>
  /\ page = 0
  /\ store_cards = DisplayApps(<< >>, sys_installed)
  /\ installed_cards = sys_installed
  /\ uiq = << >>
  /\ wk = [w \in Workers |-> UnusedWorker]
  /\ posted = [w \in Workers |-> << >>]
  /\ reloaded = {}

OpsNext ==
  \/ \E p \in {0, 1} : SwitchPage(p)
  \/ \E w \in Workers, id \in Ids : install_app(w, id)
  \/ \E w \in Workers, id \in Ids, ok \in ListOutcomes(page # 0) :
       uninstall_app(w, id, ok)
  \/ \E w \in Workers, id \in Ids : update_app(w, id)
  \/ \E w \in Workers : update_all_apps(w)
  \/ \E w \in Workers, raises \in BOOLEAN : WorkerStart(w, raises)
  \/ \E w \in Workers : WorkerLine(w)
  \/ \E w \in Workers, rc \in {0, 1} : WorkerExit(w, rc)
  \/ \E w \in Workers : WorkerFinally(w)
  \/ \E ok \in ListOutcomes(uiq # << >> /\ CallsLoad(Head(uiq))) :
       UIDispatch(ok)

Init == OpsInit /\ ImgIdle /\ ParseIdle /\ CatIdle /\ GuessIdle /\ SearchIdle /\ FilterIdle
  /\ ThrIdle /\ MediaIdle /\ ShotsIdle /\ ListIdle /\ ExcIdle
  /\ ReloadIdle /\ SpinIdle

Next == OpsNext

Spec == Init /\ [][Next]_vars

\* The operating system schedules every started thread, Popen and
\* subprocess.run return or raise, and the subprocess of a worker exits:
\* each step of a worker that is possible is eventually taken.
WorkerFairness ==
  \A w \in Workers :
    /\ WF_vars(\E raises \in BOOLEAN : WorkerStart(w, raises))
    /\ WF_vars(\E rc \in {0, 1} : WorkerExit(w, rc))
    /\ WF_vars(WorkerFinally(w))

SpecLive == Spec /\ WorkerFairness

(***************************************************************************)
(* SpecImg: download_image calls made one after the other, with every      *)
(* network outcome.  SpecImgConc: the calls run on concurrent worker        *)
(* threads for the same URL and the network serves the image to each.       *)
(***************************************************************************)
OpsIdle ==
  /\ sys_installed = {}
  /\ installed_apps = {}
  /\ current_operations = << >>
  /\ page = 0
  /\ store_cards = DisplayApps(<< >>, {})
  /\ installed_cards = {}
  /\ uiq = << >>
  /\ wk = [w \in Workers |-> UnusedWorker]
  /\ posted = [w \in Workers |-> << >>]
  /\ reloaded = {}

\* call c is made after the calls before it have returned
InTurn(c) == \A b \in Calls : b < c => dl[b].pc = "done"

DlCallInTurn(c, url, size) == InTurn(c) /\ DlCall(c, url, size)

ImgSeqNext ==
  \/ \E c \in Calls, u \in Urls, sz \in Sizes : DlCallInTurn(c, u, sz)
  \/ \E c \in Calls : DlDecodeCached(c)
  \/ \E c \in Calls : DlRemove(c)
  \/ \E c \in Calls, o \in {"ok", "transport", "status"}, b \in Bodies :
        DlGet(c, o, b)
  \/ \E c \in Calls : DlOpen(c)
  \/ \E c \in Calls : DlWrite(c)
  \/ \E c \in Calls : DlStreamFail(c)
  \/ \E c \in Calls : DlFinalDecode(c)

ImgConcNext ==
  \/ \E c \in Calls, sz \in Sizes : DlCall(c, Url, sz)
  \/ \E c \in Calls : DlDecodeCached(c)
  \/ \E c \in Calls : DlRemove(c)
  \/ \E c \in Calls : DlGet(c, "ok", GoodImage)
  \/ \E c \in Calls : DlOpen(c)
  \/ \E c \in Calls : DlWrite(c)
  \/ \E c \in Calls : DlFinalDecode(c)

ImgSpecInit == OpsIdle /\ ImgInit /\ ParseIdle /\ CatIdle /\ GuessIdle /\ SearchIdle /\ FilterIdle
  /\ ThrIdle /\ MediaIdle /\ ShotsIdle /\ ListIdle /\ ExcIdle
  /\ ReloadIdle /\ SpinIdle

SpecImg == ImgSpecInit /\ [][ImgSeqNext]_vars

SpecImgConc == ImgSpecInit /\ [][ImgConcNext]_vars

(***************************************************************************)
(* SpecParse: _parse_v2_response run once on each bounded response         *)
(***************************************************************************)
ParseSpecInit == OpsIdle /\ ImgIdle /\ ParseInit /\ CatIdle /\ GuessIdle /\ SearchIdle /\ FilterIdle
  /\ ThrIdle /\ MediaIdle /\ ShotsIdle /\ ListIdle /\ ExcIdle
  /\ ReloadIdle /\ SpinIdle

ParseNext == ParseCall

SpecParse == ParseSpecInit /\ [][ParseNext]_vars

(***************************************************************************)
(* SpecCat: catalog loads, the first started at start-up and the others    *)
(* by the refresh button while earlier ones may still run.                 *)
(***************************************************************************)
CatSpecInit == OpsIdle /\ ImgIdle /\ ParseIdle /\ CatInit /\ GuessIdle /\ SearchIdle /\ FilterIdle
  /\ ThrIdle /\ MediaIdle /\ ShotsIdle /\ ListIdle /\ ExcIdle
  /\ ReloadIdle /\ SpinIdle

CatNext ==
  \/ \E l \in Loads : StartCatalogLoad(l)
  \/ \E l \in Loads : CatBegin(l)
  \/ \E l \in Loads, o \in ApiOutcomes, d \in ApiResponses : CatApi(l, o, d)
  \/ \E l \in Loads, r \in LsRuns : CatFallback(l, r)
  \/ \E l \in Loads : CatFinish(l)

SpecCat == CatSpecInit /\ [][CatNext]_vars

(***************************************************************************)
(* SpecGuess: _guess_category_from_id on each bounded id.                  *)
(***************************************************************************)
GuessSpecInit == OpsIdle /\ ImgIdle /\ ParseIdle /\ CatIdle /\ GuessInit /\ SearchIdle /\ FilterIdle
  /\ ThrIdle /\ MediaIdle /\ ShotsIdle /\ ListIdle /\ ExcIdle
  /\ ReloadIdle /\ SpinIdle

GuessNext == GuessCall

SpecGuess == GuessSpecInit /\ [][GuessNext]_vars

(***************************************************************************)
(* SpecSearch: search-changed events and timer expiries in any order.      *)
(***************************************************************************)
SearchSpecInit ==
  OpsIdle /\ ImgIdle /\ ParseIdle /\ CatIdle /\ GuessIdle /\ SearchIdle
  /\ FilterIdle /\ ThrIdle /\ MediaIdle /\ ShotsIdle /\ ListIdle
  /\ ExcIdle /\ ReloadIdle /\ SpinIdle

SearchNext ==
  \/ \E text \in EntryTexts : on_search_changed(text)
  \/ \E h \in 1..MaxEvents : TimerFire(h)

SpecSearch == SearchSpecInit /\ [][SearchNext]_vars

(***************************************************************************)
(* Properties of the debounced search                                      *)
(***************************************************************************)
\* the display_apps calls made by the timer of event h
CallsOf(h) == {i \in 1..Len(display_calls) : display_calls[i].handle = h}

\* event h continues the burst of event h - 1: it arrived while the timer
\* of the previous event was still pending
ContinuesBurst(h) == h \in DOMAIN events /\ events[h].prev_pending

\* event h is the last of its burst
EndsBurst(h) == h \in DOMAIN events /\ ~ContinuesBurst(h + 1)

NoTimerPending == \A h \in DOMAIN sources : sources[h].state # "pending"

\* C12: of the events of a burst only the last one's timer calls
\* display_apps, and it does so at most once and with the (stripped) term of
\* that event; once no timer is pending every burst has produced exactly
\* one display_apps call, so no timer fires again after its call.
C12_OneCallPerBurstWithLastTerm ==
  /\ \A h \in DOMAIN events :
       /\ Cardinality(CallsOf(h)) <= 1
       /\ ~EndsBurst(h) => CallsOf(h) = {}
       /\ \A i \in CallsOf(h) :
            /\ display_calls[i].term = Strip(events[h].text)
            /\ ~IsPending(sources, h)
  /\ NoTimerPending =>
       \A h \in DOMAIN events : EndsBurst(h) => Cardinality(CallsOf(h)) = 1

\* C12 witness: three changes, each before the previous timer fired, have
\* been followed by one display_apps call with the term of the third.
C12_Witness ==
  /\ Len(events) = 3
  /\ ContinuesBurst(2) /\ ContinuesBurst(3)
  /\ events[1].text = "gimp" /\ events[2].text = "" /\ events[3].text = " vlc "
  /\ display_calls = <<[handle |-> 3, term |-> "vlc"]>>
  /\ NoTimerPending

\* C26 (the claim as stated): whenever a search-changed event passes a
\* handle to GLib.source_remove, the timer of that handle is still pending;
\* the handle of a timer that has fired is never passed to it.
C26_OnlyPendingTimersAreCancelled ==
  \A h \in DOMAIN events :
    events[h].cancelled # NoHandle => events[h].prev_pending

\* the part of C26 that holds: the first event cancels nothing, and a later
\* event passes the handle stored by the event before it
C26_CancelsThePreviousHandle ==
  \A h \in DOMAIN events :
    events[h].cancelled = IF h = 1 THEN NoHandle ELSE h - 1

(***************************************************************************)
(* SpecFilter: filter_apps on each bounded catalog, category and term.     *)
(***************************************************************************)
FilterSpecInit ==
  OpsIdle /\ ImgIdle /\ ParseIdle /\ CatIdle /\ GuessIdle /\ SearchIdle
  /\ FilterInit /\ ThrIdle /\ MediaIdle /\ ShotsIdle /\ ListIdle
  /\ ExcIdle /\ ReloadIdle /\ SpinIdle

FilterNext == FilterCall

SpecFilter == FilterSpecInit /\ [][FilterNext]_vars

(***************************************************************************)
(* Properties of filter_apps                                               *)
(***************************************************************************)
\* the record is wanted under the current category and term
Wanted(r) ==
  /\ f_category = "all" \/ \E i \in DOMAIN r.categories : r.categories[i] = f_category
  /\ \/ f_term = ""
     \/ \E text \in {r.name, r.summary, r.flatpakAppId} :
          Contains(Lower(Chars(text)), Lower(Chars(f_term)))

\* the positions of the catalog whose record is wanted
WantedAt == {i \in DOMAIN f_apps : Wanted(f_apps[i])}

\* the k-th smallest element of a finite set of numbers
RECURSIVE Nth(_, _)
Nth(S, k) ==
  LET least == CHOOSE x \in S : \A y \in S : x <= y
  IN  IF k = 1 THEN least ELSE Nth(S \ {least}, k - 1)

\* C13: filter_apps returns, in catalog order, exactly the records that
\* pass the category test (category "all" or a member of the record's
\* categories) and the search test (empty term, or its lower-case form a
\* substring of the lower-cased name, summary or id); a record without
\* categories is returned under "all" only, and the record named VLC is
\* returned for the term "vlc".
C13_FilterIsCategoryAndSearch ==
  f_out # NotFiltered =>
    /\ Len(f_out) = Cardinality(WantedAt)
    /\ \A k \in 1..Len(f_out) : f_out[k] = f_apps[Nth(WantedAt, k)]
    /\ f_category # "all" =>
         \A k \in 1..Len(f_out) : f_out[k].categories # << >>
    /\ (f_term = "vlc" /\ f_category = "all") =>
         \A i \in DOMAIN f_apps :
           f_apps[i] = VlcRecord => \E k \in 1..Len(f_out) : f_out[k] = VlcRecord

\* C13 witness: the VLC record without categories, behind a record that is
\* filtered out, is the result for the term "vlc" under "all".
C13_Witness ==
  /\ Len(f_apps) = 2 /\ f_apps[2] = VlcRecord /\ f_apps[1] # VlcRecord
  /\ f_term = "vlc" /\ f_category = "all"
  /\ f_out = <<VlcRecord>>

(***************************************************************************)
(* SpecThreads: start-up, clicks, the idle queue and the worker threads.   *)
(***************************************************************************)
ThrSpecInit ==
  OpsIdle /\ ImgIdle /\ ParseIdle /\ CatIdle /\ GuessIdle /\ SearchIdle
  /\ FilterIdle /\ ThrInit /\ MediaIdle /\ ShotsIdle /\ ListIdle
  /\ ExcIdle /\ ReloadIdle /\ SpinIdle

ThrNext ==
  \/ \E fn \in ClickHandlers : Click(fn)
  \/ IdleDispatch
  \/ UiStep
  \/ \E w \in ThreadIds : WorkerStep(w)

SpecThreads == ThrSpecInit /\ [][ThrNext]_vars

(***************************************************************************)
(* Properties of the thread view                                           *)
(***************************************************************************)
Mutations ==
  {"installed_apps.add", "installed_apps.discard", "installed_apps.clear",
   "current_operations.set", "current_operations.del"}

Blocking == {"network", "subprocess"}

UiState == {"status_bar", "progress_bar", "spinner", "cards", "image"}

\* C14 (the claim as stated): every mutation of installed_apps and of
\* current_operations is executed on the UI thread.
C14_MutationsOnUiThreadOnly ==
  \A e \in tlog : e[2] \in Mutations => e[1] = "ui"

\* C15 (the claim as stated): no network request and no wait on a
\* subprocess is executed on the UI thread.
C15_NoBlockingCallOnUiThread ==
  \A e \in tlog : e[2] \in Blocking => e[1] = "worker"

\* C16 (the claim as stated): no worker thread changes UI state (status
\* bar, progress bar, spinner, card containers, images) itself.
C16_WorkersNeverTouchUiState ==
  \A e \in tlog : e[2] \in UiState => e[1] = "ui"

(***************************************************************************)
(* SpecMedia: display passes, worker completions and callbacks in any      *)
(* order.                                                                  *)
(***************************************************************************)
MediaSpecInit ==
  OpsIdle /\ ImgIdle /\ ParseIdle /\ CatIdle /\ GuessIdle /\ SearchIdle
  /\ FilterIdle /\ ThrIdle /\ MediaIdle /\ ShotsIdle /\ ListIdle
  /\ ExcIdle /\ ReloadIdle /\ SpinIdle

MediaNext ==
  \/ \E n \in RecordCounts : display_apps(n)
  \/ \E w \in 1..(2 * MaxPasses), pixbuf \in BOOLEAN : LoadWorkerEnds(w, pixbuf)
  \/ RunImageCallback

SpecMedia == MediaSpecInit /\ [][MediaNext]_vars

(***************************************************************************)
(* Properties of the card images                                           *)
(***************************************************************************)
\* C17: a posted image result changes its widget only if the widget is
\* attached when the callback runs, and then it sets the pixbuf; a result
\* whose widget was detached by a display pass leaves the widget as it was,
\* and no detached widget ever gets a pixbuf.
C17_ResultAppliedOnlyToAttachedWidget ==
  /\ \A e \in m_log :
       /\ e.attached => e.after = "pixbuf"
       /\ ~e.attached => e.after = e.before
  /\ \A w \in DOMAIN mw :
       mw[w].image = "pixbuf" => \E e \in m_log : e.widget = w /\ e.attached

\* C17 witness: a result posted for a widget of the first pass has been
\* discarded after a second pass, and a result of the second pass applied.
C17_Witness ==
  /\ \E e \in m_log :
       /\ ~e.attached /\ mw[e.widget].pass = 1
       /\ mw[e.widget].image = "placeholder"
  /\ \E e \in m_log :
       /\ e.attached /\ mw[e.widget].pass = 2
       /\ mw[e.widget].image = "pixbuf"

\* the cards that are in apps_container
VisibleCards == {<<mw[w].pass, mw[w].card>> : w \in {v \in DOMAIN mw : mw[v].attached}}

\* the load_worker threads that have not ended
FetchesInFlight == {w \in DOMAIN mw : mw[w].thread = "running"}

\* C18 (the claim as stated): the image-fetch threads in flight are never
\* more than the visible store cards, and never more than 50.
C18_FetchesAtMostVisibleCards ==
  /\ Cardinality(VisibleCards) <= DisplayCap
  /\ Cardinality(FetchesInFlight) <= Cardinality(VisibleCards)
  /\ Cardinality(FetchesInFlight) <= DisplayCap

(***************************************************************************)
(* SpecShots: get_app_screenshot_urls on each id and detail response.      *)
(***************************************************************************)
ShotsSpecInit ==
  OpsIdle /\ ImgIdle /\ ParseIdle /\ CatIdle /\ GuessIdle /\ SearchIdle
  /\ FilterIdle /\ ThrIdle /\ MediaIdle /\ ShotsInit /\ ListIdle
  /\ ExcIdle /\ ReloadIdle /\ SpinIdle

ShotsNext == ShotsCall

SpecShots == ShotsSpecInit /\ [][ShotsNext]_vars

(***************************************************************************)
(* Properties of get_app_screenshot_urls                                   *)
(***************************************************************************)
\* the detail request failed: transport error, timeout, non-200 status or
\* a body that is no JSON
DetailFailed == s_resp.how # "answer" \/ s_resp.status # 200

\* the detail request succeeded with a non-empty list of screenshot objects
DetailHasShots ==
  /\ ~DetailFailed
  /\ "screenshots" \in DOMAIN s_resp.data
  /\ s_resp.data.screenshots # << >>
  /\ \A i \in DOMAIN s_resp.data.screenshots : IsDict(s_resp.data.screenshots[i])

\* C20 (the claim as stated): the call returns the one-element sequence
\* holding the first screenshot entry's URL when the detail request succeeds
\* with a non-empty screenshots list, and the empty sequence on any failure.
C20_FirstShotOrEmpty ==
  s_out # NotReturned =>
    /\ DetailHasShots =>
         s_out = <<IF "imgDesktopUrl" \in DOMAIN s_resp.data.screenshots[1]
                   THEN s_resp.data.screenshots[1].imgDesktopUrl
                   ELSE EmptyUrl>>
    /\ DetailFailed => s_out = << >>

(***************************************************************************)
(* SpecList: load_installed_apps on each bounded `flatpak list` output.    *)
(***************************************************************************)
ListSpecInit ==
  OpsIdle /\ ImgIdle /\ ParseIdle /\ CatIdle /\ GuessIdle /\ SearchIdle
  /\ FilterIdle /\ ThrIdle /\ MediaIdle /\ ShotsIdle /\ ListInit
  /\ ExcIdle /\ ReloadIdle /\ SpinIdle

ListNext == ListCall

SpecList == ListSpecInit /\ [][ListNext]_vars

(***************************************************************************)
(* Properties of load_installed_apps                                       *)
(***************************************************************************)
\* the lines of the stripped output that are not blank
NonBlankLines ==
  {k \in 1..Len(StripSplit(l_stdout)) : ~BlankLine(StripSplit(l_stdout)[k])}

\* what a line is to yield: its id, its name or else its id, its
\* description or else the placeholder
ExpectedEntry(parts) ==
  [app_id      |-> parts[1],
   name        |-> IF Len(parts) >= 2 THEN parts[2] ELSE parts[1],
   description |-> IF Len(parts) >= 3 THEN parts[3] ELSE NoDescription]

\* C21 (the claim as stated): after load_installed_apps every non-blank
\* line of the list output has its id in the installed set and an entry
\* with its id, its name (the id for a line with only an id) and its
\* description (the placeholder when the line has none).
C21_EveryLineYieldsEntry ==
  l_out.done =>
    \A k \in NonBlankLines :
      LET parts == StripSplit(l_stdout)[k]
      IN  /\ parts[1] \in l_out.ids
          /\ \E e \in 1..Len(l_out.entries) :
               l_out.entries[e] = ExpectedEntry(parts)

\* the part of C21 that holds: every line with a tab yields its entry, with
\* the placeholder as description when the third column is missing
C21_TabbedLinesYieldEntry ==
  l_out.done =>
    \A k \in NonBlankLines :
      LET parts == StripSplit(l_stdout)[k]
      IN  Len(parts) >= 2 =>
            /\ parts[1] \in l_out.ids
            /\ \E e \in 1..Len(l_out.entries) :
                 l_out.entries[e] = ExpectedEntry(parts)

(***************************************************************************)
(* SpecExc: exceptions raised at the raise sites of the worker threads.    *)
(***************************************************************************)
ExcSpecInit ==
  OpsIdle /\ ImgIdle /\ ParseIdle /\ CatIdle /\ GuessIdle /\ SearchIdle
  /\ FilterIdle /\ ThrIdle /\ MediaIdle /\ ShotsIdle /\ ListIdle /\ ExcIdle
  /\ ReloadIdle /\ SpinIdle

ExcNext == \E s \in RaiseSites : WorkerRaises(s)

SpecExc == ExcSpecInit /\ [][ExcNext]_vars

(***************************************************************************)
(* Properties of the exception handlers                                    *)
(***************************************************************************)
\* the exception of log entry e led to a message in the status sink
LedToStatus(e) == e.by.effect = "status" \/ e.by.then_status

\* C23 (the claim as stated): every exception raised in a worker thread is
\* caught by an except clause of the thread's code and leads to a message
\* posted to the status sink.
C23_EveryExceptionBecomesStatus ==
  \A i \in 1..Len(x_log) :
    /\ x_log[i].by # Uncaught
    /\ LedToStatus(x_log[i])

\* the part of C23 that holds: no exception leaves a worker thread, and
\* outside load_worker every exception leads to a status message
C23_CaughtAndReportedOutsideLoadWorker ==
  \A i \in 1..Len(x_log) :
    /\ x_log[i].by # Uncaught
    /\ x_log[i].worker # "load_worker" => LedToStatus(x_log[i])

(***************************************************************************)
(* SpecReload: reloads on the UI thread and on refresh threads, and the    *)
(* optimistic changes of the operation workers, interleaved.               *)
(***************************************************************************)
ReloadSpecInit ==
  OpsIdle /\ ImgIdle /\ ParseIdle /\ CatIdle /\ GuessIdle /\ SearchIdle
  /\ FilterIdle /\ ThrIdle /\ MediaIdle /\ ShotsIdle /\ ListIdle /\ ExcIdle
  /\ ReloadInit /\ SpinIdle

ReloadNext ==
  \/ \E r \in Reloads, t \in {"ui", "refresh"} : ReloadStart(r, t)
  \/ \E r \in Reloads, out \in ListedOutputs : ReloadRunOk(r, out)
  \/ \E r \in Reloads : ReloadRunFails(r)
  \/ \E r \in Reloads : ReloadClear(r)
  \/ \E r \in Reloads : ReloadAdd(r)
  \/ \E k \in {"install", "uninstall"}, id \in ListedIds : OptimisticChange(k, id)

SpecReload == ReloadSpecInit /\ [][ReloadNext]_vars

(***************************************************************************)
(* Properties of the installed-set reload                                  *)
(***************************************************************************)
\* C25 (the claim as stated): when a load_installed_apps run completes
\* without error, installed_apps is exactly the set of ids the run parsed
\* from its list output, also when other threads reload or change the set
\* at the same time.
C25_ReloadLeavesExactlyTheParsedIds ==
  \A r \in Reloads :
    r_runs[r].pc = "done" => r_runs[r].at_end = r_runs[r].parsed

\* the part of C25 that holds: a run into which no other thread wrote
\* between its clear and its last add leaves exactly the ids it parsed
C25_UndisturbedReloadIsExact ==
  \A r \in Reloads :
    (r_runs[r].pc = "done" /\ ~r_runs[r].disturbed)
      => r_runs[r].at_end = r_runs[r].parsed

(***************************************************************************)
(* SpecSpinner: overlapping catalog loads and the UI thread's show_loading *)
(* calls.  A started thread is scheduled, its requests and its subprocess  *)
(* end or time out (30 s), and the main loop runs the callbacks posted.    *)
(***************************************************************************)
SpinSpecInit ==
  OpsIdle /\ ImgIdle /\ ParseIdle /\ CatIdle /\ GuessIdle /\ SearchIdle
  /\ FilterIdle /\ ThrIdle /\ MediaIdle /\ ShotsIdle /\ ListIdle /\ ExcIdle
  /\ ReloadIdle /\ SpinInit

SpinNext ==
  \/ \E l \in Loads : SpinStart(l)
  \/ \E l \in Loads : SpinBegin(l)
  \/ \E l \in Loads, raised \in BOOLEAN : SpinApi(l, raised)
  \/ \E l \in Loads : SpinFallback(l)
  \/ \E l \in Loads : SpinFinish(l)
  \/ \E l \in Loads : SpinDisplay(l)
  \/ \E l \in Loads : SpinRaise(l)
  \/ show_loading

\* a step of load l's thread
SpinThreadStep(l) ==
  \/ SpinBegin(l)
  \/ \E raised \in BOOLEAN : SpinApi(l, raised)
  \/ SpinFallback(l)
  \/ SpinFinish(l)
  \/ SpinDisplay(l)
  \/ SpinRaise(l)

SpinFairness ==
  /\ \A l \in Loads : WF_vars(SpinThreadStep(l))
  /\ WF_vars(show_loading)

SpecSpinner == SpinSpecInit /\ [][SpinNext]_vars /\ SpinFairness

(***************************************************************************)
(* Properties of the loading spinner                                       *)
(***************************************************************************)
NoLoadInFlight == \A l \in Loads : k_loads[l].pc \in {"idle", "done"}

\* C27: a load that has ended has posted show_loading(False), whatever its
\* path; whenever no load is in flight and the idle queue is drained the
\* spinner is hidden; and every load that starts eventually ends having
\* posted show_loading(False).
C27_SpinnerHiddenAfterLoads ==
  /\ [](\A l \in Loads : k_loads[l].pc = "done" => k_loads[l].hid)
  /\ []((NoLoadInFlight /\ k_queue = << >>) => ~k_spinner)
  /\ \A l \in Loads :
       (k_loads[l].pc = "begin") ~> (k_loads[l].pc = "done" /\ k_loads[l].hid)

\* C27 witness: two loads have overlapped, one ended in the outer except
\* clause and one normally, the queue is drained and the spinner is hidden.
C27_Witness ==
  /\ \E a, b \in Loads :
       /\ k_loads[a].pc = "done" /\ k_loads[a].raised
       /\ k_loads[b].pc = "done" /\ ~k_loads[b].raised
  /\ NoLoadInFlight /\ k_queue = << >> /\ ~k_spinner

(***************************************************************************)
(* Properties of _guess_category_from_id                                   *)
(***************************************************************************)
\* the rules one of whose keywords is a substring of the lower-cased id
MatchingRules(cs) ==
  {r \in 1..Len(CategoryRules) :
     \E t \in 1..Len(CategoryRules[r].terms) :
       Contains(Lower(cs), CategoryRules[r].terms[t])}

RuleOrder ==
  <<"Network", "Office", "Graphics", "AudioVideo", "Game", "Development",
    "Utility">>

\* C11: _guess_category_from_id returns the one-element list holding the
\* category of the first rule, in the order Network, Office, Graphics,
\* AudioVideo, Game, Development, Utility, one of whose keywords is a
\* substring of the lower-cased id, and Other when no rule matches; and
\* org.mozilla.firefox gives Network, org.gimp.GIMP gives Graphics.
C11_FirstMatchingRuleWins ==
  g_out # NotGuessed =>
    /\ [r \in 1..Len(CategoryRules) |-> CategoryRules[r].category] = RuleOrder
    /\ \/ /\ MatchingRules(g_id) = {}
          /\ g_out = <<"Other">>
       \/ \E r \in MatchingRules(g_id) :
            /\ \A q \in MatchingRules(g_id) : r <= q
            /\ g_out = <<RuleOrder[r]>>
    /\ g_id = Chars("org.mozilla.firefox") => g_out = <<"Network">>
    /\ g_id = Chars("org.gimp.GIMP") => g_out = <<"Graphics">>

\* C11 witness: an id whose upper-case letters spell a Graphics keyword and
\* which also matches a later rule has been resolved to Graphics.
C11_Witness ==
  /\ g_id = <<"G", "I", "M", "P", "g", "i", "t">>
  /\ g_out = <<"Graphics">>

(***************************************************************************)
(* Properties of the catalog loader                                        *)
(***************************************************************************)
CatPastBranches(l) == ld[l].pc \in {"finish", "done"}

\* C8 (the claim as stated): whenever the API attempt of a load failed, the
\* catalog its fallback produced and assigned is non-empty.
C8_FallbackNeverEmpty ==
  \A l \in Loads :
    (ld[l].api = "raised" /\ CatPastBranches(l))
    => /\ ld[l].assigned # << >>
       /\ Len(Last(ld[l].assigned)) > 0

\* C9: within one catalog load the API is attempted at most once, remote-ls
\* is invoked at most once and only after the API attempt raised, and once
\* the branches are over remote-ls has been invoked exactly when the API
\* attempt raised and available_apps has been assigned exactly once, with
\* the result of the branch that won.
C9_TwoBranchesFirstSuccessWins ==
  \A l \in Loads :
    /\ ld[l].api_calls <= 1 /\ ld[l].ls_calls <= 1
    /\ Len(ld[l].assigned) <= 1
    /\ ld[l].ls_calls = 1 => ld[l].api = "raised"
    /\ CatPastBranches(l)
       => /\ ld[l].api_calls = 1
          /\ (ld[l].ls_calls = 1) <=> (ld[l].api = "raised")
          /\ ld[l].assigned =
               <<IF ld[l].api = "raised" THEN FallbackCatalog[ld[l].ls]
                 ELSE ParseV2(ld[l].data).apps>>

\* C9 witness: two loads are over, one won by the API branch and one by the
\* fallback after its API attempt raised.
C9_Witness ==
  \E a, b \in Loads :
    /\ ld[a].pc = "done" /\ ld[a].api = "ok" /\ ld[a].ls_calls = 0
    /\ Len(ld[a].assigned) = 1 /\ Len(ld[a].assigned[1]) = 2
    /\ ld[b].pc = "done" /\ ld[b].api = "raised" /\ ld[b].ls_calls = 1
    /\ ld[b].assigned = <<SeedApps>>

(***************************************************************************)
(* Properties of _parse_v2_response                                        *)
(***************************************************************************)
OutFields ==
  {"flatpakAppId", "name", "summary", "categories", "icon", "screenshots"}

\* the record the claim describes for raw record r
Normalised(r, o) ==
  /\ DOMAIN o = OutFields
  /\ o.flatpakAppId = IF "id" \in DOMAIN r THEN r.id
                      ELSE IF "flatpakAppId" \in DOMAIN r THEN r.flatpakAppId
                      ELSE ""
  /\ o.name = IF "name" \in DOMAIN r THEN r.name
              ELSE IF "id" \in DOMAIN r THEN r.id ELSE ""
  /\ o.summary = IF "summary" \in DOMAIN r THEN r.summary
                 ELSE IF "description" \in DOMAIN r THEN r.description
                 ELSE "No description available"
  /\ o.categories = IF "categories" \in DOMAIN r THEN r.categories ELSE << >>
  /\ o.icon = IF "icon" \in DOMAIN r THEN r.icon ELSE ""
  /\ o.screenshots = IF "screenshots" \in DOMAIN r THEN r.screenshots ELSE << >>

AllDicts(items) == \A i \in 1..Len(items) : IsDict(items[i])

\* C10: for a bare array and for an {apps: [...]} object whose records carry
\* any subset of the optional fields, the call does not raise and yields one
\* record per input record, in input order, each with all six fields set:
\* summary is the record's summary, else its description, else "No
\* description available"; categories and screenshots default to empty.
C10_NormalisationIsTotal ==
  (p_out.done /\ p_data.shape \in {"list", "apps"} /\ AllDicts(p_data.items))
  => /\ ~p_out.raised
     /\ Len(p_out.apps) = Len(p_data.items)
     /\ \A i \in 1..Len(p_data.items) :
          Normalised(p_data.items[i], p_out.apps[i])

\* C10 witness: an {apps: [...]} response of two different records, the
\* first with no optional field at all, has been normalised.
C10_Witness ==
  /\ p_out.done /\ p_data.shape = "apps"
  /\ Len(p_data.items) = 2 /\ Len(p_out.apps) = 2
  /\ DOMAIN p_data.items[1] = {}
  /\ p_data.items[2] # p_data.items[1]
  /\ p_out.apps[1].summary = "No description available"
  /\ p_out.apps[1].categories = << >>
  /\ p_out.apps[1].screenshots = << >>

(***************************************************************************)
(* Properties of download_image                                            *)
(***************************************************************************)
DlDone(c) == dl[c].pc = "done"

\* calls c and c + 1 were made one after the other with the URL
Consecutive(c) ==
  /\ c + 1 \in Calls
  /\ DlDone(c) /\ DlDone(c + 1)
  /\ dl[c].url = Url /\ dl[c + 1].url = Url

\* call c has returned and no later call has started
JustReturned(c) ==
  /\ DlDone(c)
  /\ \A b \in Calls : b > c => dl[b].pc = "idle"

\* C4 (the claim as stated): two calls made one after the other with the
\* same URL issue at most one GET in total.
C4_AtMostOneGet ==
  \A c \in Calls : Consecutive(c) => dl[c].gets + dl[c + 1].gets <= 1

\* C4 (amended): when the first of two calls made one after the other with
\* the same URL returns an image, the second issues no GET and returns the
\* image decoded from the cache file, so the two issue at most one GET.
C4_SecondCallIsCacheHit ==
  \A c \in Calls :
    (Consecutive(c) /\ dl[c].result.kind = "image")
    => /\ dl[c + 1].gets = 0
       /\ dl[c + 1].result = Pixbuf(GoodImage, dl[c + 1].size)
       /\ dl[c].gets + dl[c + 1].gets <= 1

\* C4 witness: the first call fetched the image, the second call, made with
\* another max_size, returned it without a GET.
C4_Witness ==
  \E c \in Calls :
    /\ Consecutive(c)
    /\ dl[c].gets = 1 /\ dl[c].result.kind = "image"
    /\ dl[c + 1].gets = 0 /\ dl[c + 1].result.kind = "image"
    /\ dl[c].size # dl[c + 1].size

\* C5: a call that found the cache file present and undecodable has deleted
\* it before it fetches, and an image it returns was decoded from the body
\* of its own GET, which is then the content of the cache file.
C5_CorruptCacheIsDeletedAndRefetched ==
  \A c \in Calls :
    dl[c].corrupt =>
      /\ dl[c].pc = "get" => cache_file = Absent
      /\ (JustReturned(c) /\ dl[c].result.kind = "image")
         => /\ dl[c].gets = 1
            /\ dl[c].result.pix = dl[c].body
            /\ dl[c].result.pix # dl[c].before.data
            /\ cache_file = File(dl[c].body)

\* C5 witness: a call found an undecodable cache file, fetched the URL and
\* returned the image.
C5_Witness ==
  \E c \in Calls :
    /\ dl[c].corrupt /\ dl[c].before.exists
    /\ DlDone(c) /\ dl[c].result.kind = "image" /\ dl[c].gets = 1

\* the GET of call c failed, its body stopped part-way, or the downloaded
\* bytes did not decode
DlFailed(c) == DlDone(c) /\ dl[c].gets = 1 /\ dl[c].result.kind # "image"

\* C6 (the claim as stated): a call whose GET or final decode failed has
\* returned none and left no file behind: the cache file is as it was before
\* the call, or absent.
C6_FailureLeavesNoFile ==
  \A c \in Calls :
    (DlFailed(c) /\ JustReturned(c))
    => /\ dl[c].result = ReturnNone
       /\ cache_file = dl[c].before \/ cache_file = Absent

\* C7 (the claim as stated): when the concurrent calls for the URL have all
\* returned, each has returned a decoded image and the cache file is the
\* complete image.
C7_ConcurrentCallsAllDecode ==
  (\A c \in Calls : DlDone(c))
  => /\ \A c \in Calls : dl[c].result.kind = "image"
     /\ cache_file = File(GoodImage)

(***************************************************************************)
(* Properties of the operation runner                                      *)
(***************************************************************************)
\* callbacks of worker w still waiting in the idle queue
Pending(w) == {i \in 1..Len(uiq) : uiq[i].op = w}

\* C1: when the subprocess call of an install, uninstall or update raises,
\* then at the step that ends the worker the id is not a key of
\* current_operations and the last status message the worker posted is the
\* terminal error message.
C1_CleanupOnLaunchException ==
  [][\A w \in Workers :
       (/\ wk[w].pc = "finally" /\ wk'[w].pc = "done"
        /\ wk[w].kind \in {"install", "uninstall", "update"}
        /\ wk[w].out = "raise")
       => (/\ wk[w].id \notin DOMAIN current_operations'
           /\ posted'[w] # << >>
           /\ Last(posted'[w]) = "error")]_vars

\* C1 witness: an install whose Popen raised has ended; its entry is gone and
\* its error message is in the status sink.
C1_Witness ==
  \E w \in Workers :
    /\ wk[w].kind = "install" /\ wk[w].out = "raise" /\ wk[w].pc = "done"
    /\ wk[w].id \notin DOMAIN current_operations
    /\ Last(posted[w]) = "error"

\* the reload worker w posted on exit code 0 has not run yet
ReloadPending(q, w) ==
  \E i \in 1..Len(q) : q[i] = Cb("load_installed_apps", w, TRUE)

\* C19: at the step in which an install exits with code 0 its id enters
\* installed_apps, and at the step in which an uninstall exits with code 0
\* its id leaves installed_apps, in both cases with the worker's reload
\* still waiting in the idle queue; a step in which an install or uninstall
\* exits non-zero or fails to launch leaves installed_apps as it was.
C19_OptimisticUpdateBeforeReload ==
  [][\A w \in Workers :
       /\ (/\ wk[w].pc = "launched" /\ wk'[w].pc = "finally"
           /\ wk[w].kind \in {"install", "uninstall"})
          => /\ (wk[w].kind = "install" /\ wk'[w].out = "rc0")
                => /\ wk[w].id \in installed_apps'
                   /\ ReloadPending(uiq', w) /\ w \notin reloaded'
             /\ (wk[w].kind = "uninstall" /\ wk'[w].out = "rc0")
                => /\ wk[w].id \notin installed_apps'
                   /\ ReloadPending(uiq', w) /\ w \notin reloaded'
             /\ wk'[w].out = "rc1" => installed_apps' = installed_apps
       /\ (/\ wk[w].pc = "start" /\ wk'[w].pc = "finally"
           /\ wk[w].kind \in {"install", "uninstall"})
          => installed_apps' = installed_apps]_vars

\* C19 witness: an install has exited with code 0, its id is in
\* installed_apps although the package manager's list has not been read
\* since, and its reload is still in the queue.
C19_Witness ==
  \E w \in Workers :
    /\ wk[w].kind = "install" /\ wk[w].out = "rc0" /\ wk[w].pc = "finally"
    /\ wk[w].id \in installed_apps
    /\ ReloadPending(uiq, w) /\ reloaded = {}

\* C2 (the claim as stated): in every reachable state an id is a key of
\* current_operations if and only if an install, uninstall or update of that
\* id is in flight.
C2_EntryIffInFlight ==
  \A id \in Ids :
    (id \in DOMAIN current_operations)
      <=> (\E w \in Workers : InFlight(w) /\ wk[w].id = id)

\* C3 (the claim as stated): once an operation has ended and the callbacks
\* it posted have run, one of them has run load_installed_apps.
C3_ReloadAfterEveryOperation ==
  \A w \in Workers :
    (wk[w].pc = "done" /\ Pending(w) = {}) => w \in reloaded

\* the kinds of message that end an operation's reporting
TerminalKinds == {"success", "failure", "error"}

\* worker w has posted its terminal message and nothing after it
TerminalPosted(w) ==
  posted[w] # << >> /\ Last(posted[w]) \in TerminalKinds

\* C22: a worker posts at most one terminal message and nothing after it,
\* a worker that has left its try block has posted one, whatever the
\* outcome (exit code 0, non-zero exit code, launch exception), and every
\* operation that was started eventually posts its terminal message.
C22_TerminalStatusPostedLast ==
  /\ [](\A w \in Workers :
          /\ \A i \in 1..Len(posted[w]) :
               posted[w][i] \in TerminalKinds => i = Len(posted[w])
          /\ wk[w].pc \in {"finally", "done"} => TerminalPosted(w))
  /\ \A w \in Workers : (wk[w].pc = "start") ~> TerminalPosted(w)

\* C22 witness: an install that printed a line and exited with code 0 and
\* an update-all whose subprocess.run raised have both ended, each with its
\* terminal message last.
C22_Witness ==
  \E v, w \in Workers :
    /\ wk[v].kind = "install" /\ wk[v].pc = "done"
    /\ posted[v] = <<"start", "line", "success">>
    /\ wk[w].kind = "updateAll" /\ wk[w].pc = "done"
    /\ posted[w] = <<"start", "error">>

(***************************************************************************)
(* Properties of the catalog's records                                     *)
(***************************************************************************)
\* C24 (the claim as stated): every record of available_apps has the six
\* fields id, name, summary, categories, icon and screenshots, whichever
\* branch of the load produced it.
C24_AllRecordsHaveTheSameFields ==
  \A i \in 1..Len(available_apps) : DOMAIN available_apps[i] = OutFields

\* the part of C24 that holds: the four fields id, name, summary and
\* categories are in every record, and the records assigned by the API
\* branch have all six
C24_CommonFieldsInEveryRecord ==
  /\ \A i \in 1..Len(available_apps) :
       {"flatpakAppId", "name", "summary", "categories"}
         \subseteq DOMAIN available_apps[i]
  /\ \A l \in Loads :
       (ld[l].api = "ok" /\ CatPastBranches(l)) =>
         \A i \in 1..Len(ld[l].assigned[1]) :
           DOMAIN ld[l].assigned[1][i] = OutFields

====
